---- MODULE Spec2Model ----
(***************************************************************************)
(* ObjLoader::load (src/src/obj/loader.rs): the line-by-line interpreter   *)
(* of a Wavefront geometry file and of the material library it refers to. *)
(* One action per match arm of the loader; the state is the loader's       *)
(* locals.  Tokens are strings, as in the source; a face token is the      *)
(* sequence of its '/'-separated components.                               *)
(***************************************************************************)
EXTENDS Integers, Sequences, FiniteSets, TLC

VARIABLES
    objects,      \* HashMap<String, (Obj, Option<&str>, builder)>
    materials,    \* Option<HashMap<String, Handle<Mtl>>>
    cull,         \* bool
    current_obj,  \* Option<key of objects>
    mtls,         \* HashMap<String, Mtl> of the library being read
    current_mtl,  \* Option<key of mtls>
    mode,         \* which loop is running: "obj" or "mtl"
    line,         \* the line last taken from file.lines()
    lineno,       \* number of lines taken from the geometry file
    mtlno,        \* number of lines taken from the material library
    result,       \* running, or the Result the load returned
    tasks,        \* the loads the executor holds as futures, by what each holds
    maps,         \* Assets<Map>: the ids it stores
    meshes,       \* Assets<Mesh>: the handles whose mesh it stores
    map_meshes,   \* MapMeshes: the entries (AssetId<Map>, Handle<Mesh>) of the table
    events,       \* Events<AssetEvent<Map>> that update_map_mesh has not read
    handles,      \* Assets<Mesh>: the number of handles it has handed out
    panicked      \* an unwrap of update_map_mesh has panicked

\* The resources of update_map_mesh (src/src/map/mod.rs).
MapVars == <<maps, meshes, map_meshes, events, handles, panicked>>

vars == <<objects, materials, cull, current_obj, mtls, current_mtl, mode, line, lineno, mtlno, result,
          tasks, MapVars>>

----------------------------------------------------------------------------
\* Bounds of the input files.

\* Single-face files (SpecFan): vertices of a face, "v" lines and "vt" lines.
MaxFaceLen == 4
MaxIdx == 4

\* Geometry-only files (SpecGeom): lines of each attribute kind and triangles,
\* per file.
MaxAttrs == 2
MaxTris == 2

\* Whole files with a material library (Spec).
MaxFileLines == 5
MaxMtlLines == 3

ObjNames == {"A", "B"}
MtlNames == {"m1", "m2"}
TexPaths == {"t.png"}
LibPaths == {"lib.mtl"}

----------------------------------------------------------------------------
\* Option and Result values.

None == [some |-> FALSE]
Some(x) == [some |-> TRUE, val |-> x]

Ok(x) == [ok |-> TRUE, val |-> x]
Err(e) == [ok |-> FALSE, err |-> e]

\* ObjError variants.
ObjErr(kind, arg, index, max) == [kind |-> kind, arg |-> arg, index |-> index, max |-> max]
ExpectedId == ObjErr("ExpectedId", "", 0, 0)
ExpectedNum == ObjErr("ExpectedNum", "", 0, 0)
ExpectedIndex == ObjErr("ExpectedIndex", "", 0, 0)
ExpectedFace == ObjErr("ExpectedFace", "", 0, 0)
InvalidNum(tok) == ObjErr("InvalidNum", tok, 0, 0)
InvalidIndex(tok) == ObjErr("InvalidIndex", tok, 0, 0)
ZeroIndex == ObjErr("ZeroIndex", "", 0, 0)
OutOfRangeIndex(index, max) == ObjErr("OutOfRangeIndex", "", index, max)
Unexpected(tok) == ObjErr("Unexpected", tok, 0, 0)
Multiple(what) == ObjErr("Multiple", what, 0, 0)
Missing(what) == ObjErr("Missing", what, 0, 0)
DuplicateObj(id) == ObjErr("DuplicateObj", id, 0, 0)
DuplicateMtl(id) == ObjErr("DuplicateMtl", id, 0, 0)
UnknownMtl(id) == ObjErr("UnknownMtl", id, 0, 0)
InvalidMtllib(path) == ObjErr("InvalidMtllib", path, 0, 0)

Running == [tag |-> "running"]
Failed(e) == [tag |-> "err", err |-> e]
Loaded(objs, mats) == [tag |-> "ok", objects |-> objs, materials |-> mats]

----------------------------------------------------------------------------
\* Number parsing.

\* Largest number a token of the model spells.
MaxNum == 9

\* The decimal tokens and the number each spells.
NumOf == [tok \in {ToString(n) : n \in 0..MaxNum} |->
             CHOOSE n \in 0..MaxNum : ToString(n) = tok]

\* usize::from_str on a token.
UsizeFromStr(tok) ==
    IF tok \in DOMAIN NumOf THEN Ok(NumOf[tok]) ELSE Err(InvalidIndex(tok))

\* f32::from_str on a token; the model's numbers are small integers.
F32FromStr(tok) ==
    IF tok \in DOMAIN NumOf THEN Ok(NumOf[tok]) ELSE Err(InvalidNum(tok))

\* usize::checked_sub(1).ok_or(ZeroIndex)
CheckedSub1(n) == IF n >= 1 THEN Ok(n - 1) ELSE Err(ZeroIndex)

\* The first Err of a sequence of results, evaluated left to right with `?`.
FirstErr(rs) ==
    LET bad == {i \in 1..Len(rs) : ~rs[i].ok}
    IN  IF bad = {} THEN None
        ELSE Some(rs[CHOOSE i \in bad : \A j \in bad : i <= j].err)

----------------------------------------------------------------------------
\* Maps and the loader's per-object entry.

EmptyMap == [k \in {} |-> 0]

\* (Obj::default(), None, (Vec::new(), Vec::new(), Vec::new(), HashMap::new()))
NewObj ==
    [vertices |-> <<>>, faces |-> <<>>, mtl |-> None,
     positions |-> <<>>, uvs |-> <<>>, normals |-> <<>>, table |-> EmptyMap]

\* Mtl::default()
NewMtl == [diffuse_texture |-> None]

\* Mutant of Triangle: the edge reversed, which flips the winding.
TriangleFlipped(a, b, c) == <<c, b, a>>

\* The triangle pushed for pivot a and the current edge (b, c).
Triangle(a, b, c) == <<b, c, a>>

----------------------------------------------------------------------------
\* The helpers of the "f" arm.

\* face_attribs: a face token, split at '/', to three 0-based indices.
face_attribs(f) ==
    IF Len(f) > 3 THEN Err(Unexpected(f[4]))
    ELSE IF Len(f) < 3 THEN Err(ExpectedIndex)
    ELSE LET parsed == [i \in 1..3 |-> UsizeFromStr(f[i])]
         IN  IF FirstErr(parsed).some THEN Err(FirstErr(parsed).val)
             ELSE LET subbed == [i \in 1..3 |-> CheckedSub1(parsed[i].val)]
                  IN  IF FirstErr(subbed).some THEN Err(FirstErr(subbed).val)
                      ELSE Ok([i \in 1..3 |-> subbed[i].val])

\* Mutant of GetAttr: an index past the end is clamped to the last element.
GetAttrClamped(table, index) ==
    IF index < Len(table) THEN Ok(table[index + 1])
    ELSE IF table # <<>> THEN Ok(table[Len(table)])
    ELSE Err(OutOfRangeIndex(index, Len(table)))

\* Vec::get(index).ok_or(OutOfRangeIndex { index, max: len })
GetAttr(table, index) ==
    IF index < Len(table) THEN Ok(table[index + 1])
    ELSE Err(OutOfRangeIndex(index, Len(table)))

\* Mutant of vertex: the table is not consulted, every reference gets a new slot.
vertexNoDedup(key, obj) ==
    LET attrs == <<GetAttr(obj.positions, key[1]),
                   GetAttr(obj.uvs, key[2]),
                   GetAttr(obj.normals, key[3])>>
        len == Len(obj.vertices)
    IN  IF FirstErr(attrs).some
        THEN [res |-> Err(FirstErr(attrs).val), obj |-> obj]
        ELSE [res |-> Ok(len),
              obj |-> [obj EXCEPT
                  !.vertices = Append(@, <<attrs[1].val, attrs[2].val, attrs[3].val>>),
                  !.table = [k \in DOMAIN @ \cup {key} |-> IF k = key THEN len ELSE @[k]]]]

\* vertex: the slot of an index triple in the object's vertex buffer, and the
\* object as the call leaves it.
vertex(key, obj) ==
    IF key \in DOMAIN obj.table
    THEN [res |-> Ok(obj.table[key]), obj |-> obj]
    ELSE LET attrs == <<GetAttr(obj.positions, key[1]),
                        GetAttr(obj.uvs, key[2]),
                        GetAttr(obj.normals, key[3])>>
             len == Len(obj.vertices)
         IN  IF FirstErr(attrs).some
             THEN [res |-> Err(FirstErr(attrs).val), obj |-> obj]
             ELSE [res |-> Ok(len),
                   obj |-> [obj EXCEPT
                       !.vertices = Append(@, <<attrs[1].val, attrs[2].val, attrs[3].val>>),
                       !.table = @ @@ (key :> len)]]

\* The loop of the "f" arm: push the triangle, then take the next token.
RECURSIVE FanLoop(_, _, _, _, _)
FanLoop(obj, a, b, c, rest) ==
    LET pushed == [obj EXCEPT !.faces = Append(@, Triangle(a, b, c))]
    IN  IF rest = <<>> THEN Ok(pushed)
        ELSE LET fa == face_attribs(Head(rest))
             IN  IF ~fa.ok THEN Err(fa.err)
                 ELSE LET v == vertex(fa.val, pushed)
                      IN  IF ~v.res.ok THEN Err(v.res.err)
                          ELSE FanLoop(v.obj, a, c, v.res.val, Tail(rest))

\* Mutant of AddFace: the tokens after the third are not read.
AddFaceNoFan(obj, toks) ==
    IF Len(toks) < 3 THEN Err(ExpectedFace)
    ELSE LET fas == [i \in 1..3 |-> face_attribs(toks[i])]
         IN  IF FirstErr(fas).some THEN Err(FirstErr(fas).val)
             ELSE LET va == vertex(fas[1].val, obj)
                      vb == vertex(fas[2].val, va.obj)
                      vc == vertex(fas[3].val, vb.obj)
                      rs == <<va.res, vb.res, vc.res>>
                  IN  IF FirstErr(rs).some THEN Err(FirstErr(rs).val)
                      ELSE FanLoop(vc.obj, va.res.val, vb.res.val, vc.res.val, <<>>)

\* The "f" arm on the current object: the object with the face added, or the error.
AddFace(obj, toks) ==
    IF Len(toks) < 3 THEN Err(ExpectedFace)
    ELSE LET fas == [i \in 1..3 |-> face_attribs(toks[i])]
         IN  IF FirstErr(fas).some THEN Err(FirstErr(fas).val)
             ELSE LET va == vertex(fas[1].val, obj)
                      vb == vertex(fas[2].val, va.obj)
                      vc == vertex(fas[3].val, vb.obj)
                      rs == <<va.res, vb.res, vc.res>>
                  IN  IF FirstErr(rs).some THEN Err(FirstErr(rs).val)
                      ELSE FanLoop(vc.obj, va.res.val, vb.res.val, vc.res.val,
                                   SubSeq(toks, 4, Len(toks)))

----------------------------------------------------------------------------
\* The state after construction (lines 68-83).

NoLine == [cmd |-> "", args |-> <<>>]

Init ==
    /\ objects = EmptyMap
    /\ materials = None
    /\ cull = FALSE
    /\ current_obj = None
    /\ mtls = EmptyMap
    /\ current_mtl = None
    /\ mode = "obj"
    /\ line = NoLine
    /\ lineno = 0
    /\ mtlno = 0
    /\ result = Running
    /\ tasks = <<>>
    /\ maps = {}
    /\ meshes = {}
    /\ map_meshes = <<>>
    /\ events = <<>>
    /\ handles = 0
    /\ panicked = FALSE

\* `return`: the load ends with r and its locals are dropped; `line` keeps
\* the line that ended it.
Return(r, ln) ==
    /\ result' = r
    /\ line' = ln
    /\ objects' = EmptyMap
    /\ materials' = None
    /\ cull' = FALSE
    /\ current_obj' = None
    /\ mtls' = EmptyMap
    /\ current_mtl' = None
    /\ mode' = "obj"
    /\ lineno' = 0
    /\ mtlno' = 0
    /\ UNCHANGED <<tasks, MapVars>>

\* The geometry loop takes its next line.
InObj == mode = "obj" /\ result = Running

NextLine(ln) ==
    /\ line' = ln
    /\ lineno' = lineno + 1
    /\ UNCHANGED <<mtls, current_mtl, mode, mtlno, result, tasks, MapVars>>

\* Mutant of SetCurrent: the entry of every object is replaced.
SetCurrentAll(obj) == objects' = [id \in DOMAIN objects |-> obj]

\* The current object's entry is replaced.
SetCurrent(obj) == objects' = [objects EXCEPT ![current_obj.val] = obj]

----------------------------------------------------------------------------
\* The arms of the geometry loop.

\* Mutant of LineO: the new entry starts from the open object's builder.
LineOKeepBuilder(args) ==
    LET ln == [cmd |-> "o", args |-> args]
        fresh == IF current_obj.some
                 THEN [objects[current_obj.val] EXCEPT
                          !.vertices = <<>>, !.faces = <<>>, !.mtl = None]
                 ELSE NewObj
    IN  /\ InObj
        /\ IF args = <<>> THEN Return(Failed(ExpectedId), ln)
           ELSE IF args[1] \in DOMAIN objects
           THEN Return(Failed(DuplicateObj(args[1])), ln)
           ELSE /\ objects' = objects @@ (args[1] :> fresh)
                /\ current_obj' = Some(args[1])
                /\ NextLine(ln)
                /\ UNCHANGED <<materials, cull>>

\* "o"
LineO(args) ==
    LET ln == [cmd |-> "o", args |-> args]
    IN  /\ InObj
        /\ IF args = <<>> THEN Return(Failed(ExpectedId), ln)
           ELSE IF args[1] \in DOMAIN objects
           THEN Return(Failed(DuplicateObj(args[1])), ln)
           ELSE /\ objects' = objects @@ (args[1] :> NewObj)
                /\ current_obj' = Some(args[1])
                /\ NextLine(ln)
                /\ UNCHANGED <<materials, cull>>

\* The numeric fields of a "v"/"vt"/"vn" line: n floats and no token after them.
\* (The value is pushed before the surplus token is looked for; the error
\* return drops it.)
Floats(args, n) ==
    IF Len(args) < n THEN Err(ExpectedNum)
    ELSE LET nums == [i \in 1..n |-> F32FromStr(args[i])]
         IN  IF FirstErr(nums).some THEN Err(FirstErr(nums).val)
             ELSE IF Len(args) > n THEN Err(Unexpected(args[n + 1]))
             ELSE Ok([i \in 1..n |-> nums[i].val])

\* Mutant of LineV: the position is doubled before it is stored.
LineVScaled(args) ==
    LET ln == [cmd |-> "v", args |-> args]
        r == Floats(args, 3)
    IN  /\ InObj
        /\ IF ~current_obj.some THEN Return(Failed(Missing("o")), ln)
           ELSE IF ~r.ok THEN Return(Failed(r.err), ln)
           ELSE /\ SetCurrent([objects[current_obj.val] EXCEPT
                        !.positions = Append(@, <<2 * r.val[1], 2 * r.val[2], 2 * r.val[3]>>)])
                /\ NextLine(ln)
                /\ UNCHANGED <<materials, cull, current_obj>>

\* "v"
LineV(args) ==
    LET ln == [cmd |-> "v", args |-> args]
        r == Floats(args, 3)
    IN  /\ InObj
        /\ IF ~current_obj.some THEN Return(Failed(Missing("o")), ln)
           ELSE IF ~r.ok THEN Return(Failed(r.err), ln)
           ELSE /\ SetCurrent([objects[current_obj.val] EXCEPT
                        !.positions = Append(@, <<r.val[1], r.val[2], r.val[3]>>)])
                /\ NextLine(ln)
                /\ UNCHANGED <<materials, cull, current_obj>>

\* Mutant of LineVt: the v component is stored as read.
LineVtNoFlip(args) ==
    LET ln == [cmd |-> "vt", args |-> args]
        r == Floats(args, 2)
    IN  /\ InObj
        /\ IF ~current_obj.some THEN Return(Failed(Missing("o")), ln)
           ELSE IF ~r.ok THEN Return(Failed(r.err), ln)
           ELSE /\ SetCurrent([objects[current_obj.val] EXCEPT
                        !.uvs = Append(@, <<r.val[1], r.val[2]>>)])
                /\ NextLine(ln)
                /\ UNCHANGED <<materials, cull, current_obj>>

\* "vt"
LineVt(args) ==
    LET ln == [cmd |-> "vt", args |-> args]
        r == Floats(args, 2)
    IN  /\ InObj
        /\ IF ~current_obj.some THEN Return(Failed(Missing("o")), ln)
           ELSE IF ~r.ok THEN Return(Failed(r.err), ln)
           ELSE /\ SetCurrent([objects[current_obj.val] EXCEPT
                        !.uvs = Append(@, <<r.val[1], 1 - r.val[2]>>)])
                /\ NextLine(ln)
                /\ UNCHANGED <<materials, cull, current_obj>>

\* Mutant of LineVn: the numbers are parsed before the open object is looked for.
LineVnParseFirst(args) ==
    LET ln == [cmd |-> "vn", args |-> args]
        r == Floats(args, 3)
    IN  /\ InObj
        /\ IF ~r.ok THEN Return(Failed(r.err), ln)
           ELSE IF ~current_obj.some THEN Return(Failed(Missing("o")), ln)
           ELSE /\ SetCurrent([objects[current_obj.val] EXCEPT
                        !.normals = Append(@, <<r.val[1], r.val[2], r.val[3]>>)])
                /\ NextLine(ln)
                /\ UNCHANGED <<materials, cull, current_obj>>

\* "vn"
LineVn(args) ==
    LET ln == [cmd |-> "vn", args |-> args]
        r == Floats(args, 3)
    IN  /\ InObj
        /\ IF ~current_obj.some THEN Return(Failed(Missing("o")), ln)
           ELSE IF ~r.ok THEN Return(Failed(r.err), ln)
           ELSE /\ SetCurrent([objects[current_obj.val] EXCEPT
                        !.normals = Append(@, <<r.val[1], r.val[2], r.val[3]>>)])
                /\ NextLine(ln)
                /\ UNCHANGED <<materials, cull, current_obj>>

\* Mutant of LineUsemtl: one binding per file instead of one per object.
LineUsemtlPerFile(args) ==
    LET ln == [cmd |-> "usemtl", args |-> args]
    IN  /\ InObj
        /\ IF ~current_obj.some THEN Return(Failed(Missing("o")), ln)
           ELSE IF \E id \in DOMAIN objects : objects[id].mtl.some
           THEN Return(Failed(Multiple("usemtl")), ln)
           ELSE IF args = <<>> THEN Return(Failed(ExpectedId), ln)
           ELSE /\ SetCurrent([objects[current_obj.val] EXCEPT !.mtl = Some(args[1])])
                /\ NextLine(ln)
                /\ UNCHANGED <<materials, cull, current_obj>>

\* "usemtl"
LineUsemtl(args) ==
    LET ln == [cmd |-> "usemtl", args |-> args]
    IN  /\ InObj
        /\ IF ~current_obj.some THEN Return(Failed(Missing("o")), ln)
           ELSE IF objects[current_obj.val].mtl.some
           THEN Return(Failed(Multiple("usemtl")), ln)
           ELSE IF args = <<>> THEN Return(Failed(ExpectedId), ln)
           ELSE /\ SetCurrent([objects[current_obj.val] EXCEPT !.mtl = Some(args[1])])
                /\ NextLine(ln)
                /\ UNCHANGED <<materials, cull, current_obj>>

\* "f"
LineF(args) ==
    LET ln == [cmd |-> "f", args |-> args]
    IN  /\ InObj
        /\ IF ~current_obj.some THEN Return(Failed(Missing("o")), ln)
           ELSE \E r \in {AddFace(objects[current_obj.val], args)} :
                    IF ~r.ok THEN Return(Failed(r.err), ln)
                    ELSE /\ SetCurrent(r.val)
                         /\ NextLine(ln)
                         /\ UNCHANGED <<materials, cull, current_obj>>

\* A line without tokens: `continue`.
LineBlank ==
    /\ InObj
    /\ NextLine([cmd |-> "", args |-> <<>>])
    /\ UNCHANGED <<objects, materials, cull, current_obj>>

\* Mutant of LineHash: every flag of a preprocessor line sets the cull flag.
LineHashAnyFlag(args) ==
    /\ InObj
    /\ cull' = IF Len(args) >= 1 /\ args[1] = ">>>"
               THEN cull \/ Len(args) >= 2
               ELSE cull
    /\ NextLine([cmd |-> "#", args |-> args])
    /\ UNCHANGED <<objects, materials, current_obj>>

\* "#": a comment, or the preprocessor line "# >>> flag...".
LineHash(args) ==
    /\ InObj
    /\ cull' = IF Len(args) >= 1 /\ args[1] = ">>>"
               THEN cull \/ (\E i \in 2..Len(args) : args[i] = "check_cull")
               ELSE cull
    /\ NextLine([cmd |-> "#", args |-> args])
    /\ UNCHANGED <<objects, materials, current_obj>>

\* Mutant of LineInvalid: the line is skipped.
LineInvalidSkipped(command, args) ==
    /\ InObj
    /\ NextLine([cmd |-> command, args |-> args])
    /\ UNCHANGED <<objects, materials, cull, current_obj>>

\* Any other leading token.
LineInvalid(command, args) ==
    /\ InObj
    /\ Return(Failed(Unexpected(command)), [cmd |-> command, args |-> args])

\* Mutant of LineMtllib: the path is read and fetched before the repetition
\* is looked for.
LineMtllibFetchFirst(args) ==
    LET ln == [cmd |-> "mtllib", args |-> args]
    IN  /\ InObj
        /\ IF args = <<>> THEN Return(Failed(ExpectedId), ln)
           ELSE IF args[1] \notin LibPaths THEN Return(Failed(InvalidMtllib(args[1])), ln)
           ELSE IF materials.some THEN Return(Failed(Multiple("mtllib")), ln)
           ELSE /\ mtls' = EmptyMap
                /\ current_mtl' = None
                /\ mode' = "mtl"
                /\ line' = ln
                /\ lineno' = lineno + 1
                /\ mtlno' = 0
                /\ UNCHANGED <<objects, materials, cull, current_obj, result, tasks, MapVars>>

\* "mtllib", up to the library's bytes: the nested loop starts on them.
LineMtllib(args) ==
    LET ln == [cmd |-> "mtllib", args |-> args]
    IN  /\ InObj
        /\ IF materials.some THEN Return(Failed(Multiple("mtllib")), ln)
           ELSE IF args = <<>> THEN Return(Failed(ExpectedId), ln)
           ELSE IF args[1] \notin LibPaths THEN Return(Failed(InvalidMtllib(args[1])), ln)
           ELSE /\ mtls' = EmptyMap
                /\ current_mtl' = None
                /\ mode' = "mtl"
                /\ line' = ln
                /\ lineno' = lineno + 1
                /\ mtlno' = 0
                /\ UNCHANGED <<objects, materials, cull, current_obj, result, tasks, MapVars>>

----------------------------------------------------------------------------
\* The arms of the material loop (lines 128-160).

InMtl == mode = "mtl" /\ result = Running

NextMtlLine(ln) ==
    /\ line' = ln
    /\ mtlno' = mtlno + 1
    /\ UNCHANGED <<objects, materials, cull, current_obj, mode, lineno, result, tasks, MapVars>>

\* A line without tokens before its '#': `continue`.
MtlBlank ==
    /\ InMtl
    /\ NextMtlLine([cmd |-> "", args |-> <<>>])
    /\ UNCHANGED <<mtls, current_mtl>>

\* Mutant of MtlNewmtl: only the material being declared is compared, an
\* earlier one of the same name is overwritten.
MtlNewmtlOverwrite(args) ==
    LET ln == [cmd |-> "newmtl", args |-> args]
    IN  /\ InMtl
        /\ IF args = <<>> THEN Return(Failed(ExpectedId), ln)
           ELSE IF current_mtl = Some(args[1])
           THEN Return(Failed(DuplicateMtl(args[1])), ln)
           ELSE /\ mtls' = [k \in DOMAIN mtls \cup {args[1]} |->
                               IF k = args[1] THEN NewMtl ELSE mtls[k]]
                /\ current_mtl' = Some(args[1])
                /\ NextMtlLine(ln)

\* "newmtl"
MtlNewmtl(args) ==
    LET ln == [cmd |-> "newmtl", args |-> args]
    IN  /\ InMtl
        /\ IF args = <<>> THEN Return(Failed(ExpectedId), ln)
           ELSE IF args[1] \in DOMAIN mtls
           THEN Return(Failed(DuplicateMtl(args[1])), ln)
           ELSE /\ mtls' = mtls @@ (args[1] :> NewMtl)
                /\ current_mtl' = Some(args[1])
                /\ NextMtlLine(ln)

\* Mutant of MtlMapKd: a texture already set is replaced.
MtlMapKdReplace(args) ==
    LET ln == [cmd |-> "map_Kd", args |-> args]
    IN  /\ InMtl
        /\ IF ~current_mtl.some THEN Return(Failed(Missing("mtllib")), ln)
           ELSE IF args = <<>> THEN Return(Failed(ExpectedId), ln)
           ELSE /\ mtls' = [mtls EXCEPT ![current_mtl.val].diffuse_texture = Some(args[1])]
                /\ NextMtlLine(ln)
                /\ UNCHANGED current_mtl

\* "map_Kd"
MtlMapKd(args) ==
    LET ln == [cmd |-> "map_Kd", args |-> args]
    IN  /\ InMtl
        /\ IF ~current_mtl.some THEN Return(Failed(Missing("mtllib")), ln)
           ELSE IF mtls[current_mtl.val].diffuse_texture.some
           THEN Return(Failed(Multiple("map_Kd")), ln)
           ELSE IF args = <<>> THEN Return(Failed(ExpectedId), ln)
           ELSE /\ mtls' = [mtls EXCEPT ![current_mtl.val].diffuse_texture = Some(args[1])]
                /\ NextMtlLine(ln)
                /\ UNCHANGED current_mtl

\* Any other leading token.
MtlInvalid(command, args) ==
    /\ InMtl
    /\ Return(Failed(Unexpected(command)), [cmd |-> command, args |-> args])

\* The labeled asset handle made for a material or an object.
Handle(label, asset) == [label |-> label, asset |-> asset]

\* The library's lines are exhausted (lines 162-170): back in the geometry loop.
MtlEnd ==
    /\ InMtl
    /\ materials' = Some([id \in DOMAIN mtls |-> Handle(id, mtls[id])])
    /\ mtls' = EmptyMap
    /\ current_mtl' = None
    /\ mode' = "obj"
    /\ mtlno' = 0
    /\ UNCHANGED <<objects, cull, current_obj, line, lineno, result, tasks, MapVars>>

----------------------------------------------------------------------------
\* After the last line (lines 296-308).

\* The orders in which a HashMap may hand out the keys S.
Orders(S) ==
    {s \in [1..Cardinality(S) -> S] : \A i, j \in 1..Cardinality(S) : i # j => s[i] # s[j]}

\* Mutant of FinishObj: an object without "usemtl" gets a default material.
FinishObjUnboundDefault(id, mats) ==
    LET e == objects[id]
    IN  IF ~e.mtl.some
        THEN Ok(Handle(id, [material |-> Handle("", NewMtl),
                            vertices |-> e.vertices, faces |-> e.faces]))
        ELSE IF e.mtl.val \notin DOMAIN mats THEN Err(UnknownMtl(e.mtl.val))
        ELSE Ok(Handle(id, [material |-> mats[e.mtl.val],
                            vertices |-> e.vertices, faces |-> e.faces]))

\* Mutant of FinishObj: the error names the object instead of the material.
FinishObjNamesObject(id, mats) ==
    LET e == objects[id]
    IN  IF ~e.mtl.some THEN Err(Missing("usemtl"))
        ELSE IF e.mtl.val \notin DOMAIN mats THEN Err(UnknownMtl(id))
        ELSE Ok(Handle(id, [material |-> mats[e.mtl.val],
                            vertices |-> e.vertices, faces |-> e.faces]))

\* Mutant of FinishObj: an unknown material is replaced by a default one.
FinishObjDefaultMtl(id, mats) ==
    LET e == objects[id]
    IN  IF ~e.mtl.some THEN Err(Missing("usemtl"))
        ELSE IF e.mtl.val \notin DOMAIN mats
        THEN Ok(Handle(id, [material |-> Handle(e.mtl.val, NewMtl),
                            vertices |-> e.vertices, faces |-> e.faces]))
        ELSE Ok(Handle(id, [material |-> mats[e.mtl.val],
                            vertices |-> e.vertices, faces |-> e.faces]))

\* The closure of the try_fold on one entry.
FinishObj(id, mats) ==
    LET e == objects[id]
    IN  IF ~e.mtl.some THEN Err(Missing("usemtl"))
        ELSE IF e.mtl.val \notin DOMAIN mats THEN Err(UnknownMtl(e.mtl.val))
        ELSE Ok(Handle(id, [material |-> mats[e.mtl.val],
                            vertices |-> e.vertices, faces |-> e.faces]))

Eof == [cmd |-> "<eof>", args |-> <<>>]

Finalize ==
    /\ InObj
    /\ IF ~materials.some THEN Return(Failed(Missing("mtllib")), Eof)
       ELSE \E order \in Orders(DOMAIN objects), morder \in Orders(DOMAIN materials.val) :
                LET done == [i \in 1..Len(order) |-> FinishObj(order[i], materials.val)]
                IN  IF FirstErr(done).some THEN Return(Failed(FirstErr(done).val), Eof)
                    ELSE Return(Loaded([i \in 1..Len(order) |-> done[i].val],
                                       [i \in 1..Len(morder) |-> materials.val[morder[i]]]),
                                Eof)

----------------------------------------------------------------------------
\* The input lines of the model.

\* Field tokens of "v"/"vn" and of "vt" lines: well formed, short, not a
\* number, one token too many.
Num3Args == {<<"1", "2", "3">>, <<"1", "2">>, <<"1", "x", "3">>, <<"1", "2", "3", "4">>}
Num2Args == {<<"2", "3">>, <<"2">>, <<"2", "x">>, <<"2", "3", "4">>}

\* Face tokens of whole files: in range and out of range.
FileFaceToks == {<<"1", "1", "1">>, <<"2", "1", "1">>}

\* Face tokens i/i/1.
DiagTok(i) == <<ToString(i), ToString(i), "1">>
FanFaceToks == {DiagTok(i) : i \in 1..MaxIdx}
GeomFaceToks == {DiagTok(1), DiagTok(2)}

\* Sequences over S of lengths lo..hi.
SeqsOf(S, lo, hi) == UNION {[1..n -> S] : n \in lo..hi}

\* The "f" lines of whole files (one may be a token short), of single-face
\* files and of geometry-only files.
FileFaces == SeqsOf(FileFaceToks, 2, 3)
FanFaces == SeqsOf(FanFaceToks, 3, MaxFaceLen)
GeomFaces == SeqsOf(GeomFaceToks, 3, MaxFaceLen)

RECURSIVE SumLen(_, _)
SumLen(ids, field) ==
    IF ids = {} THEN 0
    ELSE LET id == CHOOSE x \in ids : TRUE
         IN  Len(objects[id][field]) + SumLen(ids \ {id}, field)

\* Lines of one attribute kind, or triangles, so far in the file.
Total(field) == SumLen(DOMAIN objects, field)

----------------------------------------------------------------------------
\* Whole files: every arm of both loops, then the end of the file.

Next ==
    \/ /\ lineno < MaxFileLines
       /\ \/ \E args \in {<<>>} \cup {<<id>> : id \in ObjNames} : LineO(args)
          \/ \E args \in Num3Args : LineV(args)
          \/ \E args \in Num2Args : LineVt(args)
          \/ \E args \in Num3Args : LineVn(args)
          \/ \E args \in {<<>>} \cup {<<id>> : id \in MtlNames} : LineUsemtl(args)
          \/ \E args \in FileFaces : LineF(args)
          \/ LineBlank
          \/ \E args \in {<<>>, <<"note">>, <<">>>", "check_cull">>, <<">>>", "other">>} :
                LineHash(args)
          \/ LineInvalid("g", <<"x">>)
          \/ \E args \in {<<>>, <<"gone.mtl">>} \cup {<<p>> : p \in LibPaths} : LineMtllib(args)
    \/ /\ mtlno < MaxMtlLines
       /\ \/ MtlBlank
          \/ \E args \in {<<>>} \cup {<<id>> : id \in MtlNames} : MtlNewmtl(args)
          \/ \E args \in {<<>>} \cup {<<p>> : p \in TexPaths} : MtlMapKd(args)
          \/ MtlInvalid("Kd", <<"1">>)
    \/ MtlEnd
    \/ Finalize

Spec == Init /\ [][Next]_vars

----------------------------------------------------------------------------
\* Single-face files: one object, well-formed "v" and "vt" lines, one "vn"
\* line, one "f" line of up to MaxFaceLen vertices i/i/1.
NextFan ==
    \/ LineO(<<"A">>)
    \/ Total("positions") < MaxIdx /\ LineV(<<"1", "2", "3">>)
    \/ Total("uvs") < MaxIdx /\ LineVt(<<"0", "1">>)
    \/ Total("normals") = 0 /\ LineVn(<<"0", "0", "1">>)
    \/ Total("faces") = 0 /\ \E args \in FanFaces : LineF(args)

SpecFan == Init /\ [][NextFan]_vars

\* Geometry-only files: two objects of which "A" is named first, well-formed
\* "v"/"vt"/"vn" lines, faces that add up to MaxTris triangles.
NextGeom ==
    \/ \E id \in ObjNames : (id = "A" \/ objects # EmptyMap) /\ LineO(<<id>>)
    \/ Total("positions") < MaxAttrs /\ LineV(<<"1", "2", "3">>)
    \/ Total("uvs") < MaxAttrs /\ LineVt(<<"0", "1">>)
    \/ Total("normals") < MaxAttrs /\ LineVn(<<"0", "0", "1">>)
    \/ \E args \in GeomFaces :
          /\ Total("faces") + Len(args) - 2 <= MaxTris
          /\ LineF(args)

SpecGeom == Init /\ [][NextGeom]_vars

----------------------------------------------------------------------------
\* The tokenizer of both loops (lines 85-96 and 128-137). A raw line is a
\* sequence of pieces of text: " " (whitespace), "#", "/" and runs of other
\* characters.

\* u8::is_ascii_whitespace
IsSpace(c) == c = " "

\* The predicate of split_inclusive.
IsDelim(c) == c = "#" \/ IsSpace(c)

\* <[u8]>::split_inclusive: every piece ends with the delimiter that closes it.
RECURSIVE SplitInclusive(_, _)
SplitInclusive(raw, piece) ==
    IF raw = <<>> THEN (IF piece = <<>> THEN <<>> ELSE <<piece>>)
    ELSE IF IsDelim(Head(raw))
    THEN <<Append(piece, Head(raw))>> \o SplitInclusive(Tail(raw), <<>>)
    ELSE SplitInclusive(Tail(raw), Append(piece, Head(raw)))

\* <[u8]>::trim_ascii
RECURSIVE TrimAscii(_)
TrimAscii(piece) ==
    IF piece = <<>> THEN <<>>
    ELSE IF IsSpace(Head(piece)) THEN TrimAscii(Tail(piece))
    ELSE IF IsSpace(piece[Len(piece)]) THEN TrimAscii(SubSeq(piece, 1, Len(piece) - 1))
    ELSE piece

\* str::from_utf8_unchecked: the text of a token.
RECURSIVE Text(_)
Text(tok) == IF tok = <<>> THEN "" ELSE Head(tok) \o Text(Tail(tok))

\* The tokens of a raw line: split, trimmed, the empty ones dropped.
Tokens(raw) ==
    LET pieces == SplitInclusive(raw, <<>>)
        trimmed == [i \in 1..Len(pieces) |-> TrimAscii(pieces[i])]
    IN  SelectSeq(trimmed, LAMBDA t : t # <<>>)

\* Iterator::take_while(|s| s != "#")
RECURSIVE TakeWhileNotHash(_)
TakeWhileNotHash(toks) ==
    IF toks = <<>> \/ Text(Head(toks)) = "#" THEN <<>>
    ELSE <<Head(toks)>> \o TakeWhileNotHash(Tail(toks))

\* str::split('/') on a token: the texts between the slashes.
RECURSIVE SplitSlash(_, _)
SplitSlash(tok, part) ==
    IF tok = <<>> THEN <<Text(part)>>
    ELSE IF Head(tok) = "/" THEN <<Text(part)>> \o SplitSlash(Tail(tok), <<>>)
    ELSE SplitSlash(Tail(tok), Append(part, Head(tok)))

\* The texts of a sequence of tokens.
Texts(toks) == [i \in 1..Len(toks) |-> Text(toks[i])]

\* One line of the geometry file: tokenized, then matched on its first token.
ReadLine(raw) ==
    \E toks \in {Tokens(raw)} :
        IF toks = <<>> THEN LineBlank
        ELSE \E first \in {Text(toks[1])}, rest \in {TakeWhileNotHash(Tail(toks))} :
            IF first = "#" THEN LineHash(Texts(rest))
            ELSE IF first = "mtllib" THEN LineMtllib(Texts(rest))
            ELSE IF first = "o" THEN LineO(Texts(rest))
            ELSE IF first = "v" THEN LineV(Texts(rest))
            ELSE IF first = "vt" THEN LineVt(Texts(rest))
            ELSE IF first = "vn" THEN LineVn(Texts(rest))
            ELSE IF first = "usemtl" THEN LineUsemtl(Texts(rest))
            ELSE IF first = "f"
            THEN LineF([i \in 1..Len(rest) |-> SplitSlash(rest[i], <<>>)])
            ELSE LineInvalid(first, Texts(rest))

\* One line of the library: tokenized up to its '#', then matched.
ReadMtlLine(raw) ==
    \E toks \in {TakeWhileNotHash(Tokens(raw))} :
        IF toks = <<>> THEN MtlBlank
        ELSE \E first \in {Text(toks[1])}, rest \in {Texts(Tail(toks))} :
            IF first = "newmtl" THEN MtlNewmtl(rest)
            ELSE IF first = "map_Kd" THEN MtlMapKd(rest)
            ELSE MtlInvalid(first, rest)

----------------------------------------------------------------------------
\* Files as text: raw lines with and without a trailing comment.

\* The raw line of words separated by one blank.
RECURSIVE Spaced(_)
Spaced(words) ==
    IF words = <<>> THEN <<>>
    ELSE IF Len(words) = 1 THEN words[1]
    ELSE words[1] \o <<" ">> \o Spaced(Tail(words))

\* A run of characters as a word.
W(run) == <<run>>

\* The face word 1/1/1.
FaceWord == <<"1", "/", "1", "/", "1">>

\* Geometry lines: every directive as its grammar has it, and the ones that
\* take a name with a surplus word.
GeomContent ==
    {Spaced(<<W("o"), W("A")>>),
     Spaced(<<W("o"), W("A"), W("x")>>),
     Spaced(<<W("v"), W("1"), W("2"), W("3")>>),
     Spaced(<<W("vt"), W("2"), W("3")>>),
     Spaced(<<W("vn"), W("1"), W("2"), W("3")>>),
     Spaced(<<W("usemtl"), W("m1")>>),
     Spaced(<<W("usemtl"), W("m1"), W("x")>>),
     Spaced(<<W("f"), FaceWord, FaceWord, FaceWord>>),
     Spaced(<<W("mtllib"), W("lib.mtl")>>),
     Spaced(<<W("mtllib"), W("lib.mtl"), W("x")>>)}

\* Library lines, likewise.
MtlContent ==
    {Spaced(<<W("newmtl"), W("m1")>>),
     Spaced(<<W("newmtl"), W("m1"), W("x")>>),
     Spaced(<<W("map_Kd"), W("t.png")>>),
     Spaced(<<W("map_Kd"), W("t.png"), W("x")>>)}

\* Trailing comments: right after the last field, and after a blank with text
\* that reads like a directive.
CommentTails ==
    {<<"#", "c">>,
     <<" ", "#", " ", "o", " ", "B">>}

\* Lines that hold no directive.
NoContent == {<<" ">>, <<"#", " ", "c">>, <<"#", " ", ">>>", " ", "check_cull">>}

WithTails(lines) == lines \cup {l \o t : l \in lines, t \in CommentTails}

RawLines == WithTails(GeomContent) \cup NoContent
RawMtlLines == WithTails(MtlContent) \cup NoContent

\* Lines whose leading token is no keyword of the file they stand in.
StrayGeomLines ==
    {Spaced(<<W("g"), W("x")>>),
     Spaced(<<W("newmtl"), W("m1")>>)}

StrayMtlLines ==
    {Spaced(<<W("Kd"), W("1")>>),
     Spaced(<<W("o"), W("A")>>)}

PlainGeomLines == GeomContent \cup NoContent \cup StrayGeomLines
PlainMtlLines == MtlContent \cup NoContent \cup StrayMtlLines

\* Files without trailing comments.
NextPlain ==
    \/ lineno < MaxFileLines /\ \E raw \in PlainGeomLines : ReadLine(raw)
    \/ mtlno < MaxMtlLines /\ \E raw \in PlainMtlLines : ReadMtlLine(raw)
    \/ MtlEnd
    \/ Finalize

SpecPlain == Init /\ [][NextPlain]_vars

\* Files with trailing comments.
NextText ==
    \/ lineno < MaxFileLines /\ \E raw \in RawLines : ReadLine(raw)
    \/ mtlno < MaxMtlLines /\ \E raw \in RawMtlLines : ReadMtlLine(raw)
    \/ MtlEnd
    \/ Finalize

SpecText == Init /\ [][NextText]_vars

----------------------------------------------------------------------------
\* Files of one object whose "f" line is text: triples as they should be, with
\* a zero, a component short, an empty component.
FaceWords ==
    {<<"1", "/", "1", "/", "1">>,
     <<"0", "/", "1", "/", "1">>,
     <<"1", "/", "1">>,
     <<"1", "/", "/", "1">>}

FaceLine(words) == Spaced(<<W("f")>> \o words)

NextFace ==
    \/ LineO(<<"A">>)
    \/ Total("positions") = 0 /\ LineV(<<"1", "2", "3">>)
    \/ Total("uvs") = 0 /\ LineVt(<<"0", "1">>)
    \/ Total("normals") = 0 /\ LineVn(<<"0", "0", "1">>)
    \/ Total("faces") = 0 /\ \E words \in SeqsOf(FaceWords, 2, MaxFaceLen) :
          ReadLine(FaceLine(words))

SpecFace == Init /\ [][NextFace]_vars

----------------------------------------------------------------------------
\* Files of several objects: each object gets at most one line of each
\* attribute kind and one triangle, and any number of "usemtl" lines.
NextFrame ==
    \/ \E id \in ObjNames : LineO(<<id>>)
    \/ current_obj.some /\ objects[current_obj.val].positions = <<>> /\ LineV(<<"1", "2", "3">>)
    \/ current_obj.some /\ objects[current_obj.val].uvs = <<>> /\ LineVt(<<"0", "1">>)
    \/ current_obj.some /\ objects[current_obj.val].normals = <<>> /\ LineVn(<<"0", "0", "1">>)
    \/ current_obj.some /\ \E id \in MtlNames : LineUsemtl(<<id>>)
    \/ current_obj.some /\ objects[current_obj.val].faces = <<>>
          /\ LineF(<<DiagTok(1), DiagTok(1), DiagTok(1)>>)

SpecFrame == Init /\ [][NextFrame]_vars

----------------------------------------------------------------------------
\* load as a function of the file and of the library's lines: the same arms,
\* on the locals as one value. A line is the record of its leading token and
\* of the tokens after it.

\* The locals of the geometry loop after construction (lines 72-83).
Locals == [objects |-> EmptyMap, materials |-> None, cull |-> FALSE,
           current_obj |-> None, result |-> Running]

\* The locals of the material loop (lines 125-126).
MtlLocals == [mtls |-> EmptyMap, current_mtl |-> None, result |-> Running]

\* `return Err(e)` and `?`.
Throw(st, e) == [st EXCEPT !.result = Failed(e)]

\* One line of the library (lines 139-158).
match_mtl(ms, ln) ==
    IF ln.cmd = "" THEN ms
    ELSE IF ln.cmd = "newmtl"
    THEN IF ln.args = <<>> THEN Throw(ms, ExpectedId)
         ELSE IF ln.args[1] \in DOMAIN ms.mtls THEN Throw(ms, DuplicateMtl(ln.args[1]))
         ELSE [ms EXCEPT !.mtls = @ @@ (ln.args[1] :> NewMtl),
                         !.current_mtl = Some(ln.args[1])]
    ELSE IF ln.cmd = "map_Kd"
    THEN IF ~ms.current_mtl.some THEN Throw(ms, Missing("mtllib"))
         ELSE IF ms.mtls[ms.current_mtl.val].diffuse_texture.some
         THEN Throw(ms, Multiple("map_Kd"))
         ELSE IF ln.args = <<>> THEN Throw(ms, ExpectedId)
         ELSE [ms EXCEPT !.mtls[ms.current_mtl.val].diffuse_texture = Some(ln.args[1])]
    ELSE Throw(ms, Unexpected(ln.cmd))

\* The material loop (lines 128-160).
RECURSIVE for_mtl(_, _)
for_mtl(ms, lines) ==
    IF lines = <<>> \/ ms.result # Running THEN ms
    ELSE for_mtl(match_mtl(ms, Head(lines)), Tail(lines))

\* Mutant of mtllib_path: a library is taken only before the first object.
mtllib_pathFirst(st, args) ==
    IF st.objects # EmptyMap THEN Throw(st, Unexpected("mtllib"))
    ELSE IF st.materials.some THEN Throw(st, Multiple("mtllib"))
    ELSE IF args = <<>> THEN Throw(st, ExpectedId)
    ELSE IF args[1] \notin LibPaths THEN Throw(st, InvalidMtllib(args[1]))
    ELSE st

\* The "mtllib" arm up to its await (lines 109-117): the locals as they are
\* when the library is asked for, or the error.
mtllib_path(st, args) ==
    IF st.materials.some THEN Throw(st, Multiple("mtllib"))
    ELSE IF args = <<>> THEN Throw(st, ExpectedId)
    ELSE IF args[1] \notin LibPaths THEN Throw(st, InvalidMtllib(args[1]))
    ELSE st

\* The "mtllib" arm from its await on (lines 117-170), the library's lines
\* being lib.
mtllib_file(st, lib) ==
    LET ms == for_mtl(MtlLocals, lib)
    IN  IF ms.result # Running THEN Throw(st, ms.result.err)
        ELSE [st EXCEPT !.materials =
                 Some([id \in DOMAIN ms.mtls |-> Handle(id, ms.mtls[id])])]

\* The "mtllib" arm (lines 109-171).
mtllib(st, args, lib) ==
    IF mtllib_path(st, args).result # Running THEN mtllib_path(st, args)
    ELSE mtllib_file(mtllib_path(st, args), lib)

\* The arms that act on the current object (lines 181-289).
on_current(st, ln) ==
    LET obj == st.objects[st.current_obj.val]
        put(new) == [st EXCEPT !.objects[st.current_obj.val] = new]
    IN  IF ~st.current_obj.some THEN Throw(st, Missing("o"))
        ELSE IF ln.cmd = "v"
        THEN LET r == Floats(ln.args, 3)
             IN  IF ~r.ok THEN Throw(st, r.err)
                 ELSE put([obj EXCEPT !.positions =
                              Append(@, <<r.val[1], r.val[2], r.val[3]>>)])
        ELSE IF ln.cmd = "vt"
        THEN LET r == Floats(ln.args, 2)
             IN  IF ~r.ok THEN Throw(st, r.err)
                 ELSE put([obj EXCEPT !.uvs = Append(@, <<r.val[1], 1 - r.val[2]>>)])
        ELSE IF ln.cmd = "vn"
        THEN LET r == Floats(ln.args, 3)
             IN  IF ~r.ok THEN Throw(st, r.err)
                 ELSE put([obj EXCEPT !.normals =
                              Append(@, <<r.val[1], r.val[2], r.val[3]>>)])
        ELSE IF ln.cmd = "usemtl"
        THEN IF obj.mtl.some THEN Throw(st, Multiple("usemtl"))
             ELSE IF ln.args = <<>> THEN Throw(st, ExpectedId)
             ELSE put([obj EXCEPT !.mtl = Some(ln.args[1])])
        ELSE LET r == AddFace(obj, ln.args)
             IN  IF ~r.ok THEN Throw(st, r.err) ELSE put(r.val)

\* One line of the geometry file (lines 98-292).
match_first(st, ln, lib) ==
    IF ln.cmd = "" THEN st
    ELSE IF ln.cmd = "#"
    THEN [st EXCEPT !.cull =
             IF Len(ln.args) >= 1 /\ ln.args[1] = ">>>"
             THEN @ \/ (\E i \in 2..Len(ln.args) : ln.args[i] = "check_cull")
             ELSE @]
    ELSE IF ln.cmd = "mtllib" THEN mtllib(st, ln.args, lib)
    ELSE IF ln.cmd = "o"
    THEN IF ln.args = <<>> THEN Throw(st, ExpectedId)
         ELSE IF ln.args[1] \in DOMAIN st.objects THEN Throw(st, DuplicateObj(ln.args[1]))
         ELSE [st EXCEPT !.objects = @ @@ (ln.args[1] :> NewObj),
                         !.current_obj = Some(ln.args[1])]
    ELSE IF ln.cmd \in {"v", "vt", "vn", "usemtl", "f"} THEN on_current(st, ln)
    ELSE Throw(st, Unexpected(ln.cmd))

\* The geometry loop (lines 85-293).
RECURSIVE for_line(_, _, _)
for_line(st, lines, lib) ==
    IF lines = <<>> \/ st.result # Running THEN st
    ELSE for_line(match_first(st, Head(lines), lib), Tail(lines), lib)

\* The closure of the try_fold on one entry (lines 299-304).
try_fold(id, e, mats) ==
    IF ~e.mtl.some THEN Err(Missing("usemtl"))
    ELSE IF e.mtl.val \notin DOMAIN mats THEN Err(UnknownMtl(e.mtl.val))
    ELSE Ok(Handle(id, [material |-> mats[e.mtl.val],
                        vertices |-> e.vertices, faces |-> e.faces]))

\* Mutant of finish: with the cull flag set the faces are culled away.
finishCulled(st) ==
    IF ~st.materials.some THEN {Failed(Missing("mtllib"))}
    ELSE {LET done == [i \in 1..Len(order) |->
                          try_fold(order[i],
                                   [st.objects[order[i]] EXCEPT
                                       !.faces = IF st.cull THEN <<>> ELSE @],
                                   st.materials.val)]
          IN  IF FirstErr(done).some THEN Failed(FirstErr(done).val)
              ELSE Loaded([i \in 1..Len(order) |-> done[i].val],
                          [i \in 1..Len(morder) |-> st.materials.val[morder[i]]]) :
          order \in Orders(DOMAIN st.objects),
          morder \in Orders(DOMAIN st.materials.val)}

\* After the loop (lines 296-308): the results the load may return, one for
\* each order in which the maps hand out their entries.
finish(st) ==
    IF ~st.materials.some THEN {Failed(Missing("mtllib"))}
    ELSE {LET done == [i \in 1..Len(order) |->
                          try_fold(order[i], st.objects[order[i]], st.materials.val)]
          IN  IF FirstErr(done).some THEN Failed(FirstErr(done).val)
              ELSE Loaded([i \in 1..Len(order) |-> done[i].val],
                          [i \in 1..Len(morder) |-> st.materials.val[morder[i]]]) :
          order \in Orders(DOMAIN st.objects),
          morder \in Orders(DOMAIN st.materials.val)}

\* load: the results it may return for a file and the library it names.
load(file, lib) ==
    LET st == for_line(Locals, file, lib)
    IN  IF st.result # Running THEN {st.result} ELSE finish(st)

----------------------------------------------------------------------------
\* load as a future. It awaits twice: the bytes of the file (line 69) and the
\* bytes of the library (line 117); what lies between two awaits runs in one
\* poll. A task holds the future's inputs, its position and its locals.

\* The geometry loop from the given locals and lines up to the next await or
\* to its end: the locals, the lines left, and whether a library is awaited.
RECURSIVE poll(_, _)
poll(st, lines) ==
    IF lines = <<>> \/ st.result # Running
    THEN [st |-> st, lines |-> <<>>, pending |-> FALSE]
    ELSE IF Head(lines).cmd = "mtllib" /\ mtllib_path(st, Head(lines).args).result = Running
    THEN [st |-> st, lines |-> Tail(lines), pending |-> TRUE]
    ELSE poll(match_first(st, Head(lines), <<>>), Tail(lines))

\* The future of load(file) as it is created; lib is what the asset source
\* holds at the path of the file's library.
Task(file, lib) ==
    [file |-> file, lib |-> lib, pc |-> "read", st |-> Locals, lines |-> file,
     result |-> Running, at |-> <<>>]

\* The polls made so far, over all tasks.
RECURSIVE Polls(_)
Polls(ts) == IF ts = <<>> THEN 0 ELSE Len(Head(ts).at) + Polls(Tail(ts))

OtherVars == <<objects, materials, cull, current_obj, mtls, current_mtl, mode, line, lineno,
               mtlno, result, MapVars>>

\* The asset server starts a load.
Spawn(file, lib) ==
    /\ tasks' = Append(tasks, Task(file, lib))
    /\ UNCHANGED OtherVars

\* Task t leaves a poll that got to p: suspended at the library, or returned.
Resume(t, p) ==
    /\ IF p.pending
       THEN tasks' = [tasks EXCEPT ![t] =
                [@ EXCEPT !.pc = "fetch", !.st = p.st, !.lines = p.lines,
                          !.at = Append(@, Polls(tasks) + 1)]]
       ELSE \E r \in (IF p.st.result # Running THEN {p.st.result} ELSE finish(p.st)) :
                tasks' = [tasks EXCEPT ![t] =
                    [@ EXCEPT !.pc = "done", !.st = Locals, !.lines = <<>>, !.result = r,
                              !.at = Append(@, Polls(tasks) + 1)]]
    /\ UNCHANGED OtherVars

\* The bytes of the file are there: task t runs from line 69.
PollRead(t) ==
    /\ tasks[t].pc = "read"
    /\ \E p \in {poll(Locals, tasks[t].file)} : Resume(t, p)

\* Mutant of PollFetch: the library read is the one of the first task.
PollFetchFirstLib(t) ==
    /\ tasks[t].pc = "fetch"
    /\ \E p \in {poll(mtllib_file(tasks[t].st, tasks[1].lib), tasks[t].lines)} : Resume(t, p)

\* The bytes of the library are there: task t runs from line 117.
PollFetch(t) ==
    /\ tasks[t].pc = "fetch"
    /\ \E p \in {poll(mtllib_file(tasks[t].st, tasks[t].lib), tasks[t].lines)} : Resume(t, p)

----------------------------------------------------------------------------
\* The files and libraries given to load.

L(cmd, args) == [cmd |-> cmd, args |-> args]

MtllibLine == L("mtllib", <<"lib.mtl">>)
CullLine == L("#", <<">>>", "check_cull">>)

\* Two objects, the first with a triangle, each bound to a material.
MasterFile ==
    <<L("o", <<"A">>),
      L("v", <<"1", "2", "3">>),
      L("vt", <<"0", "1">>),
      L("vn", <<"0", "0", "1">>),
      L("f", <<DiagTok(1), DiagTok(1), DiagTok(1)>>),
      L("usemtl", <<"m1">>),
      L("o", <<"B">>),
      L("usemtl", <<"m2">>)>>

\* Lines left out of the master file, at most.
MaxDrop == 1

RECURSIVE DropFrom(_, _, _)
DropFrom(file, S, i) ==
    IF i > Len(file) THEN <<>>
    ELSE (IF i \in S THEN <<>> ELSE <<file[i]>>) \o DropFrom(file, S, i + 1)

Insert(file, i, ln) == SubSeq(file, 1, i) \o <<ln>> \o SubSeq(file, i + 1, Len(file))
Remove(file, j) == SubSeq(file, 1, j - 1) \o SubSeq(file, j + 1, Len(file))

\* Files without "mtllib", with one, and with one and a preprocessor line.
BaseFiles ==
    {DropFrom(MasterFile, S, 1) :
        S \in {T \in SUBSET (1..Len(MasterFile)) : Cardinality(T) <= MaxDrop}}
LibFiles == UNION {{Insert(b, i, MtllibLine) : i \in 0..Len(b)} : b \in BaseFiles}
CullFiles == UNION {{Insert(f, j, CullLine) : j \in 0..Len(f)} : f \in LibFiles}

\* Libraries: both materials, one of them, a material declared twice.
GoodLib == <<L("newmtl", <<"m1">>), L("map_Kd", <<"t.png">>), L("newmtl", <<"m2">>)>>
PartLib == <<L("newmtl", <<"m1">>)>>
BadLib == <<L("newmtl", <<"m1">>), L("newmtl", <<"m1">>)>>
Libraries == {GoodLib, PartLib, BadLib}

\* One load at a time.
NextLoad ==
    \/ tasks = <<>> /\ \E file \in BaseFiles, lib \in Libraries : Spawn(file, lib)
    \/ tasks = <<>> /\ \E file \in LibFiles, lib \in Libraries : Spawn(file, lib)
    \/ tasks = <<>> /\ \E file \in CullFiles, lib \in Libraries : Spawn(file, lib)
    \/ \E t \in DOMAIN tasks : PollRead(t)
    \/ \E t \in DOMAIN tasks : PollFetch(t)

SpecLoad == Init /\ [][NextLoad]_vars

\* Two loads of different files in flight.
PairFiles ==
    {<<L("o", <<"A">>), L("usemtl", <<"m1">>), MtllibLine>>,
     <<MtllibLine, L("o", <<"B">>), L("usemtl", <<"m2">>)>>,
     <<L("o", <<"A">>), MtllibLine, MtllibLine>>,
     <<L("v", <<"1", "2", "3">>), MtllibLine>>,
     <<L("o", <<"A">>), L("usemtl", <<"m1">>)>>}

NextPair ==
    \/ /\ Len(tasks) < 2
       /\ \E file \in PairFiles, lib \in Libraries :
             /\ \A t \in DOMAIN tasks : tasks[t].file # file
             /\ Spawn(file, lib)
    \/ \E t \in DOMAIN tasks : PollRead(t)
    \/ \E t \in DOMAIN tasks : PollFetch(t)

SpecPair == Init /\ [][NextPair]_vars

----------------------------------------------------------------------------
\* The nom grammar (src/src/obj/parser.rs). Its input is a sequence of
\* characters; "U+00E9" stands for the letter e with acute accent.

\* Longest name of the model.
MaxIdLen == 3

\* Characters of names: ASCII letters and digits, one of "-_.", a letter that
\* is not ASCII, a punctuation mark.
IdAlphabet == {"a", "7", "_", "U+00E9", "!"}

Digits == {"0", "1", "2", "3", "4", "5", "6", "7", "8", "9"}
Letters ==
    {"a", "b", "c", "d", "e", "f", "g", "i", "k", "l", "m", "n", "o", "p", "s", "t", "u",
     "v", "x", "A", "B", "K", "U+00E9"}

\* char::is_alphanumeric
IsAlphanumeric(c) == c \in Letters \cup Digits

\* IResult: Ok with what is left of the input and the output, Err::Error, and
\* Err::Failure, the error that alt and many0 do not recover from.
NomOk(rest, out) == [ok |-> TRUE, rest |-> rest, out |-> out]
NomErr == [ok |-> FALSE, cut |-> FALSE]
NomFailure == [ok |-> FALSE, cut |-> TRUE]

\* The input without its first n characters.
Rest(input, n) == SubSeq(input, n + 1, Len(input))

\* sp: take_while over tab, form feed and blank.
RECURSIVE SpLen(_)
SpLen(input) == IF input # <<>> /\ Head(input) = " " THEN 1 + SpLen(Tail(input)) ELSE 0

sp(input) ==
    NomOk(SubSeq(input, SpLen(input) + 1, Len(input)), SubSeq(input, 1, SpLen(input)))

\* term: the end of the input, or take_while1 over tab, line feed and
\* carriage return.
RECURSIVE TermLen(_)
TermLen(input) ==
    IF input # <<>> /\ Head(input) = "\n" THEN 1 + TermLen(Tail(input)) ELSE 0

term(input) ==
    IF input = <<>> THEN NomOk(<<>>, <<>>)
    ELSE IF TermLen(input) = 0 THEN NomErr
    ELSE NomOk(Rest(input, TermLen(input)), SubSeq(input, 1, TermLen(input)))

\* tag and cut.
nom_tag(t, input) ==
    IF Len(input) >= Len(t) /\ SubSeq(input, 1, Len(t)) = t
    THEN NomOk(Rest(input, Len(t)), t)
    ELSE NomErr

nom_cut(r) == IF r.ok THEN r ELSE NomFailure

\* The digits at the head of the input and the number they spell.
RECURSIVE DigitLen(_)
DigitLen(input) ==
    IF input # <<>> /\ Head(input) \in Digits THEN 1 + DigitLen(Tail(input)) ELSE 0

RECURSIVE DecVal(_, _)
DecVal(digits, acc) ==
    IF digits = <<>> THEN acc
    ELSE DecVal(Tail(digits),
                10 * acc + (CHOOSE n \in 0..9 : ToString(n) = Head(digits)))

\* float, on the numbers the model writes: runs of digits.
nom_float(input) ==
    IF DigitLen(input) = 0 THEN NomErr
    ELSE NomOk(Rest(input, DigitLen(input)), DecVal(SubSeq(input, 1, DigitLen(input)), 0))

\* index (named nom_index here): the digits, from_str and checked_sub(1).
nom_index(input) ==
    IF DigitLen(input) = 0 \/ DecVal(SubSeq(input, 1, DigitLen(input)), 0) = 0 THEN NomErr
    ELSE NomOk(Rest(input, DigitLen(input)),
               DecVal(SubSeq(input, 1, DigitLen(input)), 0) - 1)

\* The closure of id's take_while.
IsIdChar(c) == c \in {"-", "_", "."} \/ IsAlphanumeric(c)

RECURSIVE IdLen(_)
IdLen(input) ==
    IF input # <<>> /\ IsIdChar(Head(input)) THEN 1 + IdLen(Tail(input)) ELSE 0

\* id (named nom_id here, id being the loader's name for a local):
\* take_while, the longest prefix of name characters, which may be empty.
nom_id(input) ==
    NomOk(SubSeq(input, IdLen(input) + 1, Len(input)), SubSeq(input, 1, IdLen(input)))

\* preceded(tag(keyword), cut(preceded(sp, map(id, directive)))): the form of
\* mtllib, o, usemtl, newmtl and map_kd.
Named(keyword, directive, input) ==
    IF ~nom_tag(keyword, input).ok THEN NomErr
    ELSE LET name == nom_id(sp(nom_tag(keyword, input).rest).rest)
         IN  nom_cut(IF ~name.ok THEN NomErr
                     ELSE NomOk(name.rest, [directive |-> directive, name |-> name.out]))

\* o
o(input) == Named(<<"o">>, "O", input)

nom_mtllib(input) == Named(<<"m", "t", "l", "l", "i", "b">>, "Mtllib", input)
nom_usemtl(input) == Named(<<"u", "s", "e", "m", "t", "l">>, "Usemtl", input)
newmtl(input) == Named(<<"n", "e", "w", "m", "t", "l">>, "Newmtl", input)
map_kd(input) == Named(<<"m", "a", "p", "_", "K", "d">>, "MapKd", input)

\* tuple((preceded(sp, float), ..)) of n floats.
RECURSIVE Floating(_, _, _)
Floating(input, n, acc) ==
    IF n = 0 THEN NomOk(input, acc)
    ELSE LET r == nom_float(sp(input).rest)
         IN  IF ~r.ok THEN NomErr ELSE Floating(r.rest, n - 1, Append(acc, r.out))

Numeric(directive, r) ==
    IF ~r.ok THEN r ELSE NomOk(r.rest, [directive |-> directive, fields |-> r.out])

\* v, which is not cut; vt and vn, which are.
nom_v(input) ==
    IF ~nom_tag(<<"v">>, input).ok THEN NomErr
    ELSE Numeric("V", Floating(nom_tag(<<"v">>, input).rest, 3, <<>>))

nom_vt(input) ==
    IF ~nom_tag(<<"v", "t">>, input).ok THEN NomErr
    ELSE nom_cut(Numeric("Vt", Floating(nom_tag(<<"v", "t">>, input).rest, 2, <<>>)))

nom_vn(input) ==
    IF ~nom_tag(<<"v", "n">>, input).ok THEN NomErr
    ELSE nom_cut(Numeric("Vn", Floating(nom_tag(<<"v", "n">>, input).rest, 3, <<>>)))

\* tuple((index, char('/'), index, char('/'), index))
Triple(input) ==
    LET a == nom_index(input)
        s1 == IF a.ok THEN nom_tag(<<"/">>, a.rest) ELSE NomErr
        b == IF s1.ok THEN nom_index(s1.rest) ELSE NomErr
        s2 == IF b.ok THEN nom_tag(<<"/">>, b.rest) ELSE NomErr
        c == IF s2.ok THEN nom_index(s2.rest) ELSE NomErr
    IN  IF ~c.ok THEN NomErr ELSE NomOk(c.rest, <<a.out, b.out, c.out>>)

\* many_m_n(3, usize::MAX, preceded(sp, triple))
RECURSIVE ManyTriples(_, _)
ManyTriples(input, acc) ==
    LET r == Triple(sp(input).rest)
    IN  IF ~r.ok THEN (IF Len(acc) < 3 THEN NomErr ELSE NomOk(input, acc))
        ELSE ManyTriples(r.rest, Append(acc, r.out))

\* f
nom_f(input) ==
    IF ~nom_tag(<<"f">>, input).ok THEN NomErr
    ELSE nom_cut(Numeric("F", ManyTriples(nom_tag(<<"f">>, input).rest, <<>>)))

\* many1(preceded(sp, id)): an iteration that takes nothing is its error, and
\* preceded(sp, id) never fails.
RECURSIVE ManyIds(_, _, _)
ManyIds(input, acc, first) ==
    LET r == nom_id(sp(input).rest)
    IN  IF ~first /\ Len(r.rest) = Len(input) THEN NomErr
        ELSE ManyIds(r.rest, Append(acc, r.out), FALSE)

\* The text of a comment: up to the end of the line.
RECURSIVE CommentLen(_)
CommentLen(input) ==
    IF input # <<>> /\ Head(input) # "\n" THEN 1 + CommentLen(Tail(input)) ELSE 0

CommentText(input) ==
    NomOk(Rest(input, CommentLen(input)),
          [directive |-> "Comment", text |-> SubSeq(input, 1, CommentLen(input))])

\* obj_comment: the preprocessor line first, the comment otherwise.
obj_comment(input) ==
    IF ~nom_tag(<<"#">>, input).ok THEN NomErr
    ELSE LET body == sp(nom_tag(<<"#">>, input).rest).rest
             flags == IF nom_tag(<<">", ">", ">">>, body).ok
                      THEN Numeric("Preprocess",
                                   ManyIds(nom_tag(<<">", ">", ">">>, body).rest, <<>>, TRUE))
                      ELSE NomErr
         IN  nom_cut(IF flags.ok \/ flags.cut THEN flags ELSE CommentText(body))

\* mtl_comment
mtl_comment(input) ==
    IF ~nom_tag(<<"#">>, input).ok THEN NomErr
    ELSE nom_cut(CommentText(sp(nom_tag(<<"#">>, input).rest).rest))

\* alt: the first alternative that does not end with Err::Error.
Alt(results) ==
    LET decided == {i \in 1..Len(results) : results[i].ok \/ results[i].cut}
    IN  IF decided = {} THEN NomErr
        ELSE results[CHOOSE i \in decided : \A j \in decided : i <= j]

\* terminated(.., preceded(sp, term))
Terminated(r) ==
    IF ~r.ok THEN r
    ELSE IF ~term(sp(r.rest).rest).ok THEN NomErr
    ELSE NomOk(term(sp(r.rest).rest).rest, r.out)

ObjDirective(input) ==
    Terminated(Alt(<<obj_comment(input), nom_mtllib(input), o(input), nom_v(input),
                     nom_vt(input), nom_vn(input), nom_usemtl(input), nom_f(input)>>))

MtlDirective(input) ==
    Terminated(Alt(<<mtl_comment(input), newmtl(input), map_kd(input)>>))

\* many0: Err::Error of the directive ends the list with Ok, and so does a
\* directive that takes nothing (with Err::Error).
RECURSIVE Many0(_, _, _)
Many0(input, acc, obj) ==
    LET r == IF obj THEN ObjDirective(input) ELSE MtlDirective(input)
    IN  IF ~r.ok THEN (IF r.cut THEN r ELSE NomOk(input, acc))
        ELSE IF Len(r.rest) = Len(input) THEN NomErr
        ELSE Many0(r.rest, Append(acc, r.out), obj)

parse_obj(input) == Many0(input, <<>>, TRUE)
parse_mtl(input) == Many0(input, <<>>, FALSE)

\* The names of the model and the line "o <name>".
RECURSIVE NamesOf(_)
NamesOf(n) ==
    IF n = 0 THEN {<<>>}
    ELSE NamesOf(n - 1) \cup {Append(s, c) : s \in NamesOf(n - 1), c \in IdAlphabet}

IdInputs == NamesOf(MaxIdLen)

OLine(name) == <<"o", " ">> \o name

\* The grammar is run on the text; its result is kept as the file's.
Parsed(r) == [tag |-> "parsed", res |-> r]

ParseLine(raw) ==
    /\ InObj
    /\ result' = Parsed(parse_obj(raw))
    /\ line' = [cmd |-> "parse_obj", args |-> raw]
    /\ UNCHANGED <<objects, materials, cull, current_obj, mtls, current_mtl, mode,
                   lineno, mtlno, tasks, MapVars>>

ParseMtl(raw) ==
    /\ InObj
    /\ result' = Parsed(parse_mtl(raw))
    /\ line' = [cmd |-> "parse_mtl", args |-> raw]
    /\ UNCHANGED <<objects, materials, cull, current_obj, mtls, current_mtl, mode,
                   lineno, mtlno, tasks, MapVars>>

\* One-line files "o <name>", given to the grammar and to the loader.
NextId ==
    \/ lineno = 0 /\ \E name \in IdInputs : ParseLine(OLine(name))
    \/ lineno = 0 /\ \E name \in IdInputs : ReadLine(OLine(name))

SpecId == Init /\ [][NextId]_vars

\* Texts given to the grammar: lines as the grammar has them, a line with a
\* surplus word, lines with a field that is not a number or is missing, and a
\* line with an unknown keyword.
ObjTextLines ==
    {<<"o", " ", "A">>,
     <<"o", " ", "A", " ", "x">>,
     <<"v", " ", "1", " ", "2", " ", "3">>,
     <<"v", " ", "1", " ", "x">>,
     <<"v", "t", " ", "1", " ", "2">>,
     <<"v", "t", " ", "1">>,
     <<"v", "n", " ", "1", " ", "2", " ", "3">>,
     <<"u", "s", "e", "m", "t", "l", " ", "m">>,
     <<"m", "t", "l", "l", "i", "b", " ", "l">>,
     <<"f", " ", "1", "/", "1", "/", "1", " ", "1", "/", "1", "/", "1", " ",
       "1", "/", "1", "/", "1">>,
     <<"f", " ", "1", "/", "1", "/", "1", " ", "1", "/", "1", "/", "1">>,
     <<"#", " ", "c">>,
     <<"#", " ", ">", ">", ">", " ", "c">>,
     <<"g", " ", "x">>}

MtlTextLines ==
    {<<"n", "e", "w", "m", "t", "l", " ", "m">>,
     <<"n", "e", "w", "m", "t", "l", " ", "m", " ", "x">>,
     <<"m", "a", "p", "_", "K", "d", " ", "t">>,
     <<"#", " ", "c">>,
     <<"K", "d", " ", "1">>}

\* Lines of a text, at most.
MaxTextLines == 2

\* The lines joined by line feeds.
RECURSIVE Joined(_)
Joined(lines) ==
    IF lines = <<>> THEN <<>>
    ELSE IF Len(lines) = 1 THEN lines[1]
    ELSE lines[1] \o <<"\n">> \o Joined(Tail(lines))

TextsOf(lines) == {Joined(ls) : ls \in SeqsOf(lines, 1, MaxTextLines)}

NextParse ==
    \/ lineno = 0 /\ \E text \in TextsOf(ObjTextLines) : ParseLine(text)
    \/ lineno = 0 /\ \E text \in TextsOf(MtlTextLines) : ParseMtl(text)

SpecParse == Init /\ [][NextParse]_vars

----------------------------------------------------------------------------
\* update_map_mesh (src/src/map/mod.rs): the table from maps to the handles of
\* their meshes, kept by the asset events of the maps. The table is a
\* sequence of entries, as insert_unique_unchecked does not look for the key
\* it is given.

\* The maps of the model.
MapIds == {"M1", "M2"}

\* Events not yet read, and handles handed out, at most.
MaxQueue == 2
MaxHandles == 3

\* AssetEvent<Map>
AssetEvent(kind, id) == [kind |-> kind, id |-> id]

LoaderVars == <<objects, materials, cull, current_obj, mtls, current_mtl, mode, line, lineno,
                mtlno, result, tasks>>

\* What the app does between two runs of the system: the asset server sends
\* an event, and the assets change.
Send(e) ==
    /\ ~panicked
    /\ Len(events) < MaxQueue
    /\ handles + Len(events) < MaxHandles
    /\ events' = Append(events, e)
    /\ UNCHANGED <<meshes, map_meshes, handles, panicked, LoaderVars>>

AddMap(id) == id \notin maps /\ maps' = maps \cup {id} /\ Send(AssetEvent("Added", id))
ModifyMap(id) == id \in maps /\ maps' = maps /\ Send(AssetEvent("Modified", id))
RemoveMap(id) == id \in maps /\ maps' = maps \ {id} /\ Send(AssetEvent("Removed", id))
UnusedMap(id) == id \in maps /\ maps' = maps /\ Send(AssetEvent("Unused", id))
LoadedMap(id) ==
    id \in maps /\ maps' = maps /\ Send(AssetEvent("LoadedWithDependencies", id))

\* Another system takes a mesh out of Assets<Mesh>.
RemoveMesh(h) ==
    /\ ~panicked
    /\ h \in meshes
    /\ meshes' = meshes \ {h}
    /\ UNCHANGED <<maps, map_meshes, events, handles, panicked, LoaderVars>>

\* The entries of a key, HashMap::remove (one entry of the key leaves, and its
\* value is returned) and HashMap::insert_unique_unchecked.
Entries(table, id) == {i \in DOMAIN table : table[i][1] = id}

Without(table, i) == SubSeq(table, 1, i - 1) \o SubSeq(table, i + 1, Len(table))

hash_remove(table, id) ==
    IF Entries(table, id) = {} THEN {[table |-> table, handle |-> None]}
    ELSE {[table |-> Without(table, i), handle |-> Some(table[i][2])] :
              i \in Entries(table, id)}

insert_unique_unchecked(table, id, handle) == Append(table, <<id, handle>>)

\* Mutant of update_map_mesh: the entry is looked up, not taken out.
update_map_meshGet ==
    /\ ~panicked
    /\ events # <<>>
    /\ events' = Tail(events)
    /\ \E e \in {Head(events)} :
          IF e.kind \in {"Unused", "Removed"}
          THEN /\ \E r \in hash_remove(map_meshes, e.id) : map_meshes' = r.table
               /\ UNCHANGED <<maps, meshes, handles, panicked>>
          ELSE IF e.kind \notin {"Added", "Modified"} \/ e.id \notin maps
          THEN UNCHANGED <<maps, meshes, map_meshes, handles, panicked>>
          ELSE \E r \in hash_remove(map_meshes, e.id), built \in BOOLEAN :
                  \E taken \in {IF r.handle.some THEN meshes \ {r.handle.val} ELSE meshes} :
                      /\ maps' = maps
                      /\ panicked' = ~built
                      /\ IF ~built
                         THEN /\ map_meshes' = map_meshes
                              /\ meshes' = taken
                              /\ handles' = handles
                         ELSE IF r.handle.some /\ r.handle.val \in meshes
                         THEN /\ map_meshes' =
                                     insert_unique_unchecked(map_meshes, e.id, r.handle.val)
                              /\ meshes' = taken \cup {r.handle.val}
                              /\ handles' = handles
                         ELSE /\ map_meshes' =
                                     insert_unique_unchecked(map_meshes, e.id, handles + 1)
                              /\ meshes' = taken \cup {handles + 1}
                              /\ handles' = handles + 1
    /\ UNCHANGED LoaderVars

\* update_map_mesh on the next event it reads (the body of the loop, lines
\* 97-178). The mesh is built between the removal and the insertion; its
\* unwraps (lines 137-140) panic when a tile's material or texture is not
\* there, which ends the app with the entry taken out. The atlas layout of
\* line 96 is there: the system runs only outside GameState::Loading.
update_map_mesh ==
    /\ ~panicked
    /\ events # <<>>
    /\ events' = Tail(events)
    /\ \E e \in {Head(events)} :
          IF e.kind \in {"Unused", "Removed"}
          THEN /\ \E r \in hash_remove(map_meshes, e.id) : map_meshes' = r.table
               /\ UNCHANGED <<maps, meshes, handles, panicked>>
          ELSE IF e.kind \notin {"Added", "Modified"} \/ e.id \notin maps
          THEN UNCHANGED <<maps, meshes, map_meshes, handles, panicked>>
          ELSE \E r \in hash_remove(map_meshes, e.id), built \in BOOLEAN :
                  \E taken \in {IF r.handle.some THEN meshes \ {r.handle.val} ELSE meshes} :
                      /\ maps' = maps
                      /\ panicked' = ~built
                      /\ IF ~built
                         THEN /\ map_meshes' = r.table
                              /\ meshes' = taken
                              /\ handles' = handles
                         ELSE IF r.handle.some /\ r.handle.val \in meshes
                         THEN /\ map_meshes' =
                                     insert_unique_unchecked(r.table, e.id, r.handle.val)
                              /\ meshes' = taken \cup {r.handle.val}
                              /\ handles' = handles
                         ELSE /\ map_meshes' =
                                     insert_unique_unchecked(r.table, e.id, handles + 1)
                              /\ meshes' = taken \cup {handles + 1}
                              /\ handles' = handles + 1
    /\ UNCHANGED LoaderVars

NextMap ==
    \/ \E id \in MapIds : AddMap(id)
    \/ \E id \in MapIds : ModifyMap(id)
    \/ \E id \in MapIds : RemoveMap(id)
    \/ \E id \in MapIds : UnusedMap(id)
    \/ \E id \in MapIds : LoadedMap(id)
    \/ \E h \in meshes : RemoveMesh(h)
    \/ update_map_mesh

SpecMap == Init /\ [][NextMap]_vars

----------------------------------------------------------------------------
\* Vocabulary of the properties.

\* The 0-based index triple a well-formed face token i/j/k names.
Key(tok) == <<NumOf[tok[1]] - 1, NumOf[tok[2]] - 1, NumOf[tok[3]] - 1>>

Range(f) == {f[x] : x \in DOMAIN f}

\* This step takes a geometry line with leading token cmd.
ObjLine(cmd) ==
    /\ InObj
    /\ line'.cmd = cmd
    /\ lineno' = lineno + 1 \/ result' # Running

\* This step takes a library line with leading token cmd.
MtlLine(cmd) ==
    /\ InMtl
    /\ line'.cmd = cmd
    /\ mtlno' = mtlno + 1 \/ result' # Running

\* This step is an "f" line that the loader accepts.
AcceptedF == ObjLine("f") /\ result' = Running

\* The current object before and after the step.
Cur == objects[current_obj.val]
CurAfter == objects'[current_obj.val]

\* The attribute table a component of a face token indexes.
AttrTable(obj, c) == IF c = 1 THEN obj.positions ELSE IF c = 2 THEN obj.uvs ELSE obj.normals

\* The components <<token, component>> of an "f" line that lie outside obj's tables.
OutOfRange(obj, args) ==
    {jc \in (1..Len(args)) \X (1..3) : NumOf[args[jc[1]][jc[2]]] > Len(AttrTable(obj, jc[2]))}

\* jc is the first component of the set off in reading order.
IsFirst(jc, off) ==
    \A kd \in off : jc[1] < kd[1] \/ (jc[1] = kd[1] /\ jc[2] <= kd[2])

----------------------------------------------------------------------------
\* C1: an accepted "f" line of N tokens appends exactly N - 2 triangles to the
\* face list of the current object, and keeps the triangles it had.
C1_FaceAddsNMinus2 ==
    [][AcceptedF =>
        /\ current_obj' = current_obj
        /\ Len(line'.args) >= 3
        /\ Len(CurAfter.faces) = Len(Cur.faces) + Len(line'.args) - 2
        /\ SubSeq(CurAfter.faces, 1, Len(Cur.faces)) = Cur.faces]_vars

\* A face of four tokens was accepted and the object holds its two triangles.
C1_Witness ==
    /\ result = Running
    /\ line.cmd = "f"
    /\ Len(line.args) = 4
    /\ current_obj.some
    /\ Len(Cur.faces) = 2

----------------------------------------------------------------------------
\* The face of the example: 1/1/1 2/2/1 3/3/1 4/4/1.
ExampleFace == <<DiagTok(1), DiagTok(2), DiagTok(3), DiagTok(4)>>

\* In a single-face file: the "f" line was just accepted.
FanAccepted == result = Running /\ line.cmd = "f" /\ current_obj.some

\* The slot of the i-th token of the accepted line.
SlotOf(i) == Cur.table[Key(line.args[i])]

\* C2 as claimed: the k-th triangle of an accepted face is (pivot, v[k+1],
\* v[k+2]) with the pivot first; the example face yields (0,1,2), (0,2,3).
C2_PivotFirst ==
    FanAccepted =>
        /\ \A k \in 1..Len(Cur.faces) :
              Cur.faces[k] = <<SlotOf(1), SlotOf(k + 1), SlotOf(k + 2)>>
        /\ line.args = ExampleFace => Cur.faces = <<<<0, 1, 2>>, <<0, 2, 3>>>>

\* C2 as amended: the k-th triangle of an accepted face is (v[k+1], v[k+2],
\* pivot), the pivot last and the other two in source order; the example face
\* yields (1,2,0), (2,3,0).
C2_PivotLast ==
    FanAccepted =>
        /\ Len(Cur.faces) = Len(line.args) - 2
        /\ \A k \in 1..Len(Cur.faces) :
              Cur.faces[k] = <<SlotOf(k + 1), SlotOf(k + 2), SlotOf(1)>>
        /\ line.args = ExampleFace => Cur.faces = <<<<1, 2, 0>>, <<2, 3, 0>>>>

\* The example: four "v", four "vt", one "vn", then the example face.
C2_Witness ==
    /\ FanAccepted
    /\ line.args = ExampleFace
    /\ Len(Cur.positions) = 4 /\ Len(Cur.uvs) = 4 /\ Len(Cur.normals) = 1
    /\ Cur.faces = <<<<1, 2, 0>>, <<2, 3, 0>>>>

----------------------------------------------------------------------------
\* The index triples the tokens of an "f" line name.
KeysOf(args) == {Key(args[i]) : i \in 1..Len(args)}

\* The position of the first token of the line that names triple k.
FirstAt(args, k) ==
    CHOOSE i \in 1..Len(args) :
        Key(args[i]) = k /\ \A j \in 1..(i - 1) : Key(args[j]) # k

\* C3: within one object, every distinct position/uv/normal triple has exactly
\* one slot of the vertex buffer: an accepted "f" line keeps the slots of the
\* triples seen before, gives the triples it introduces the next free slots in
\* the order it first names them, stores the vertex of each triple at its
\* slot, and every index of the triangles it appends is the slot of the
\* token's triple.
C3_OneSlotPerTriple ==
    [][AcceptedF =>
        LET args == line'.args
            old == DOMAIN Cur.table
            new == KeysOf(args) \ old
        IN  /\ DOMAIN CurAfter.table = old \cup KeysOf(args)
            /\ \A k \in old : CurAfter.table[k] = Cur.table[k]
            /\ \A k \in new :
                  CurAfter.table[k] = Len(Cur.vertices)
                      + Cardinality({j \in new : FirstAt(args, j) < FirstAt(args, k)})
            /\ Len(CurAfter.vertices) = Cardinality(DOMAIN CurAfter.table)
            /\ SubSeq(CurAfter.vertices, 1, Len(Cur.vertices)) = Cur.vertices
            /\ \A k \in DOMAIN CurAfter.table :
                  CurAfter.vertices[CurAfter.table[k] + 1] =
                      <<CurAfter.positions[k[1] + 1],
                        CurAfter.uvs[k[2] + 1],
                        CurAfter.normals[k[3] + 1]>>
            /\ \A t \in 1..(Len(args) - 2) :
                  CurAfter.faces[Len(Cur.faces) + t] =
                      <<CurAfter.table[Key(args[t + 1])],
                        CurAfter.table[Key(args[t + 2])],
                        CurAfter.table[Key(args[1])]>>]_vars

\* A second face was accepted that names only triples of the first: two
\* triangles share two vertices.
C3_Witness ==
    /\ result = Running
    /\ line.cmd = "f"
    /\ Len(line.args) = 3
    /\ current_obj.some
    /\ Len(Cur.faces) = 2
    /\ Len(Cur.vertices) = 2
    /\ Cur.faces[1] # Cur.faces[2]

----------------------------------------------------------------------------
\* C4: the vertex table and the vertex buffer belong to one object. An "o"
\* line opens an object with an empty table and empty buffers; an accepted "f"
\* line changes no other object, numbers the first triple of an object from
\* slot 0 whatever the other objects hold, and every face index of the object
\* lies in the object's own vertex buffer.
C4_TablePerObject ==
    [][/\ (ObjLine("o") /\ result' = Running) =>
              /\ current_obj'.some
              /\ current_obj'.val = line'.args[1]
              /\ objects'[current_obj'.val].table = EmptyMap
              /\ objects'[current_obj'.val].vertices = <<>>
              /\ objects'[current_obj'.val].faces = <<>>
       /\ AcceptedF =>
              /\ \A id \in DOMAIN objects \ {current_obj.val} : objects'[id] = objects[id]
              /\ Cur.vertices = <<>> => CurAfter.table[Key(line'.args[1])] = 0
              /\ \A t \in 1..Len(CurAfter.faces) : \A c \in 1..3 :
                    CurAfter.faces[t][c] < Len(CurAfter.vertices)]_vars

\* Object "A" has a slot for triple 1/1/1, and the face just accepted in
\* object "B" gives the same triple slot 0 of B.
C4_Witness ==
    /\ result = Running
    /\ line.cmd = "f"
    /\ current_obj = Some("B")
    /\ "A" \in DOMAIN objects
    /\ Key(line.args[1]) \in DOMAIN objects["A"].table
    /\ Cur.table[Key(line.args[1])] = 0
    /\ Cur.faces # <<>>

----------------------------------------------------------------------------
\* This step is an "f" line of well-formed tokens read with an object open.
FaceStep ==
    /\ ObjLine("f")
    /\ current_obj.some
    /\ Len(line'.args) >= 3

\* C5 as claimed: a face component i beyond the m entries of its table fails
\* the load with OutOfRangeIndex whose index is i, the number as written.
C5_IndexAsWritten ==
    [][FaceStep =>
        \A off \in {OutOfRange(Cur, line'.args)} :
            \A jc \in off :
                IsFirst(jc, off) =>
                    result' = Failed(OutOfRangeIndex(
                        NumOf[line'.args[jc[1]][jc[2]]],
                        Len(AttrTable(Cur, jc[2]))))]_vars

\* C5 as amended: a face component i beyond the m entries of its table fails
\* the load with OutOfRangeIndex whose index is i - 1, the 0-based index, and
\* whose max is m; the component reported is the first one out of range in
\* reading order, and nothing is clamped or skipped.
C5_IndexZeroBased ==
    [][FaceStep =>
        \A off \in {OutOfRange(Cur, line'.args)} :
            \A jc \in off :
                IsFirst(jc, off) =>
                    result' = Failed(OutOfRangeIndex(
                        NumOf[line'.args[jc[1]][jc[2]]] - 1,
                        Len(AttrTable(Cur, jc[2]))))]_vars

\* A face naming index 4 failed against a table of three entries.
C5_Witness ==
    /\ result = Failed(OutOfRangeIndex(3, 3))
    /\ line.cmd = "f"
    /\ \E j \in 1..Len(line.args) : line.args[j] = DiagTok(4)

----------------------------------------------------------------------------
\* The line that feeds each attribute table.
AttrCmd == <<"v", "vt", "vn">>

\* C6: face indices are resolved against the tables of the current object
\* only. The tables of an object are empty at its "o" line and grow by one
\* entry with each "v"/"vt"/"vn" line read while it is current, which changes
\* no other object; an "f" line is accepted exactly when every component lies
\* within these tables, and fails otherwise with OutOfRangeIndex bounded by
\* one of them, whatever the earlier objects hold.
C6_CurrentObjectTables ==
    [][/\ (ObjLine("o") /\ result' = Running) =>
              \A c \in 1..3 : AttrTable(objects'[current_obj'.val], c) = <<>>
       /\ \A c \in 1..3 :
              (ObjLine(AttrCmd[c]) /\ result' = Running) =>
                  /\ \A id \in DOMAIN objects \ {current_obj.val} : objects'[id] = objects[id]
                  /\ \A d \in 1..3 :
                        Len(AttrTable(CurAfter, d)) =
                            Len(AttrTable(Cur, d)) + (IF d = c THEN 1 ELSE 0)
       /\ FaceStep =>
              /\ result' = Running <=> OutOfRange(Cur, line'.args) = {}
              /\ result' = Running =>
                    \A c \in 1..3 : AttrTable(CurAfter, c) = AttrTable(Cur, c)
              /\ result' # Running =>
                    /\ result'.tag = "err"
                    /\ result'.err.kind = "OutOfRangeIndex"
                    /\ result'.err.max \in {Len(Cur.positions), Len(Cur.uvs), Len(Cur.normals)}
                    /\ result'.err.index >= result'.err.max]_vars

\* Object "A" holds a position, a uv and a normal, object "B" is open and holds
\* none, and a face naming 1/1/1 fails there with max 0.
C6_Witness ==
    /\ result = Running
    /\ current_obj = Some("B")
    /\ "A" \in DOMAIN objects
    /\ Len(objects["A"].positions) >= 1
    /\ Len(objects["A"].uvs) >= 1
    /\ Len(objects["A"].normals) >= 1
    /\ Cur.positions = <<>>
    /\ AddFace(Cur, <<DiagTok(1), DiagTok(1), DiagTok(1)>>) = Err(OutOfRangeIndex(0, 0))

----------------------------------------------------------------------------
\* The leading tokens whose arm needs an open object.
NeedsObject == {"v", "vt", "vn", "usemtl", "f"}

\* C7: a "v", "vt", "vn", "usemtl" or "f" line read before any "o" line fails
\* the load with Missing("o"), whatever its arguments and whatever comments,
\* preprocessor lines or "mtllib" came before it.
C7_MissingObject ==
    [][\A cmd \in NeedsObject :
          (ObjLine(cmd) /\ ~current_obj.some) => result' = Failed(Missing("o"))]_vars

\* No object is open although a library was resolved and a preprocessor line
\* was read, and a well-formed "v" line fails there with Missing("o").
C7_Witness ==
    /\ result = Running
    /\ mode = "obj"
    /\ ~current_obj.some
    /\ materials.some
    /\ cull
    /\ ENABLED (LineV(<<"1", "2", "3">>) /\ result' = Failed(Missing("o")))

----------------------------------------------------------------------------
\* C8: an "o" line naming an object the file already declared fails the load
\* with DuplicateObj of that name, and a "newmtl" line naming a material the
\* library already declared fails it with DuplicateMtl of that name; the names
\* declared are never forgotten while the load runs, so the lines in between
\* do not matter.
C8_DuplicateNames ==
    [][/\ (ObjLine("o") /\ line'.args # <<>> /\ line'.args[1] \in DOMAIN objects) =>
              result' = Failed(DuplicateObj(line'.args[1]))
       /\ (MtlLine("newmtl") /\ line'.args # <<>> /\ line'.args[1] \in DOMAIN mtls) =>
              result' = Failed(DuplicateMtl(line'.args[1]))
       /\ (InObj /\ result' = Running) => DOMAIN objects \subseteq DOMAIN objects'
       /\ (InMtl /\ result' = Running /\ mode' = "mtl") => DOMAIN mtls \subseteq DOMAIN mtls']_vars

\* Material "m1" was declared, then "m2", and a second "newmtl m1" fails there
\* with DuplicateMtl("m1").
C8_Witness ==
    /\ result = Running
    /\ mode = "mtl"
    /\ DOMAIN mtls = {"m1", "m2"}
    /\ current_mtl = Some("m2")
    /\ ENABLED (MtlNewmtl(<<"m1">>) /\ result' = Failed(DuplicateMtl("m1")))

----------------------------------------------------------------------------
\* This step is the end of the file with a resolved library.
FinalizeStep == InObj /\ line' = Eof /\ materials.some

\* The objects the final check rejects.
Faulty ==
    {id \in DOMAIN objects :
        ~objects[id].mtl.some \/ objects[id].mtl.val \notin DOMAIN materials.val}

\* The errors the final check can report for them.
FaultOf(id) ==
    IF objects[id].mtl.some THEN UnknownMtl(objects[id].mtl.val) ELSE Missing("usemtl")

\* C9 as claimed: an object bound to a material X that the resolved library
\* does not hold fails the load with UnknownMtl(X).
C9_UnknownMtlOfEach ==
    [][FinalizeStep =>
        \A id \in DOMAIN objects :
            (objects[id].mtl.some /\ objects[id].mtl.val \notin DOMAIN materials.val) =>
                result' = Failed(UnknownMtl(objects[id].mtl.val))]_vars

\* C9 as amended: an object bound to a material X that the resolved library
\* does not hold fails the load; the error is the one of some object the final
\* check rejects, UnknownMtl of its unknown material or Missing("usemtl") if it
\* is unbound, and it is UnknownMtl(X) when every rejected object is bound to X.
C9_UnknownMtlOfSome ==
    [][(FinalizeStep /\ Faulty # {}) =>
        /\ result'.tag = "err"
        /\ \E id \in Faulty : result' = Failed(FaultOf(id))]_vars

\* The library holds "m1" only, object "A" is bound to "m2", and the end of
\* the file fails there with UnknownMtl("m2").
C9_Witness ==
    /\ result = Running
    /\ mode = "obj"
    /\ materials.some
    /\ DOMAIN materials.val = {"m1"}
    /\ DOMAIN objects = {"A"}
    /\ objects["A"].mtl = Some("m2")
    /\ ENABLED (Finalize /\ result' = Failed(UnknownMtl("m2")))

----------------------------------------------------------------------------
\* C10: a load that returns Ok returns every object the file declared, each
\* once, each with the one material its "usemtl" named, and that material is a
\* member of the returned material list.
C10_OkMaterials ==
    [][(InObj /\ line' = Eof /\ result'.tag = "ok") =>
        /\ materials.some
        /\ Faulty = {}
        /\ Len(result'.objects) = Cardinality(DOMAIN objects)
        /\ {result'.objects[i].label : i \in 1..Len(result'.objects)} = DOMAIN objects
        /\ {result'.materials[i].label : i \in 1..Len(result'.materials)} = DOMAIN materials.val
        /\ \A i \in 1..Len(result'.objects) :
              LET h == result'.objects[i]
              IN  /\ h.asset.material = materials.val[objects[h.label].mtl.val]
                  /\ h.asset.material \in Range(result'.materials)]_vars

\* Two objects were returned, bound to two different materials of the list.
C10_Witness ==
    /\ result.tag = "ok"
    /\ Len(result.objects) = 2
    /\ Len(result.materials) = 2
    /\ result.objects[1].asset.material # result.objects[2].asset.material
    /\ \A i \in 1..2 : result.objects[i].asset.material \in Range(result.materials)

----------------------------------------------------------------------------
\* C11: "usemtl" binds at most once per object: with the current object
\* already bound the line fails with Multiple("usemtl"); an "o" line opens an
\* object that is not bound, so that a "usemtl" line naming a material is
\* accepted there and binds it, leaving the other objects as they are.
C11_UsemtlOncePerObject ==
    [][/\ (ObjLine("o") /\ result' = Running) =>
              ~objects'[current_obj'.val].mtl.some
       /\ (ObjLine("usemtl") /\ current_obj.some) =>
              IF Cur.mtl.some THEN result' = Failed(Multiple("usemtl"))
              ELSE line'.args # <<>> =>
                      /\ result' = Running
                      /\ CurAfter.mtl = Some(line'.args[1])
                      /\ \A id \in DOMAIN objects \ {current_obj.val} :
                            objects'[id] = objects[id]]_vars

\* Object "A" is bound, object "B" was opened after it and its "usemtl" line
\* was accepted; a second one fails there with Multiple("usemtl").
C11_Witness ==
    /\ result = Running
    /\ line.cmd = "usemtl"
    /\ current_obj = Some("B")
    /\ "A" \in DOMAIN objects
    /\ objects["A"].mtl.some
    /\ objects["B"].mtl.some
    /\ ENABLED (LineUsemtl(<<"m1">>) /\ result' = Failed(Multiple("usemtl")))

----------------------------------------------------------------------------
\* This step is the end of the file.
EofStep == InObj /\ line' = Eof

\* The objects without a "usemtl" binding.
Unbound == {id \in DOMAIN objects : ~objects[id].mtl.some}

\* C12 as claimed: if some object has no "usemtl" binding at the end of the
\* file, the load fails with Missing("usemtl").
C12_MissingUsemtlAlways ==
    [][(EofStep /\ Unbound # {}) => result' = Failed(Missing("usemtl"))]_vars

\* C12 as amended: if some object has no "usemtl" binding at the end of the
\* file, the load fails: with Missing("mtllib") if no library was resolved,
\* otherwise with the error of some object the final check rejects, which is
\* Missing("usemtl") when every rejected object is unbound.
C12_MissingUsemtlUnlessEarlier ==
    [][(EofStep /\ Unbound # {}) =>
        IF ~materials.some THEN result' = Failed(Missing("mtllib"))
        ELSE /\ \E id \in Faulty : result' = Failed(FaultOf(id))
             /\ Faulty = Unbound => result' = Failed(Missing("usemtl"))]_vars

\* A library was resolved, object "A" is bound to a material of it, object
\* "B" is unbound, and the end of the file fails with Missing("usemtl").
C12_Witness ==
    /\ result = Running
    /\ mode = "obj"
    /\ materials.some
    /\ DOMAIN objects = {"A", "B"}
    /\ Faulty = {"B"}
    /\ Unbound = {"B"}
    /\ ENABLED (Finalize /\ result' = Failed(Missing("usemtl")))

----------------------------------------------------------------------------
\* C13: "mtllib" is accepted at most once per file: once a library is
\* resolved, every later "mtllib" line fails with Multiple("mtllib"), also
\* when it names no path or a library that cannot be read, and no library
\* line is read for it.
C13_MtllibOnce ==
    [][(ObjLine("mtllib") /\ materials.some) =>
        /\ result' = Failed(Multiple("mtllib"))
        /\ mode' = "obj"
        /\ mtlno' = 0]_vars

\* A library is resolved and other lines were read since; a "mtllib" line
\* naming an unreadable library fails there with Multiple("mtllib").
C13_Witness ==
    /\ result = Running
    /\ mode = "obj"
    /\ materials.some
    /\ current_obj.some
    /\ line.cmd # "mtllib"
    /\ ENABLED (LineMtllib(<<"gone.mtl">>) /\ result' = Failed(Multiple("mtllib")))

----------------------------------------------------------------------------
\* C14: "map_Kd" sets the texture of the material declared last and of no
\* other; it fails with Missing("mtllib") before any "newmtl" and with
\* Multiple("map_Kd") when that material has a texture; "newmtl" makes the
\* new material, without texture, the one declared last.
C14_MapKdOncePerMaterial ==
    [][/\ (MtlLine("newmtl") /\ result' = Running) =>
              /\ current_mtl' = Some(line'.args[1])
              /\ ~mtls'[line'.args[1]].diffuse_texture.some
              /\ \A id \in DOMAIN mtls : mtls'[id] = mtls[id]
       /\ MtlLine("map_Kd") =>
              IF ~current_mtl.some THEN result' = Failed(Missing("mtllib"))
              ELSE IF mtls[current_mtl.val].diffuse_texture.some
              THEN result' = Failed(Multiple("map_Kd"))
              ELSE line'.args # <<>> =>
                      /\ result' = Running
                      /\ current_mtl' = current_mtl
                      /\ mtls'[current_mtl.val].diffuse_texture = Some(line'.args[1])
                      /\ \A id \in DOMAIN mtls \ {current_mtl.val} : mtls'[id] = mtls[id]]_vars

\* Material "m1" has a texture, "m2" was declared after it and has none: a
\* "map_Kd" line is accepted there and a second one would not be.
C14_Witness ==
    /\ result = Running
    /\ mode = "mtl"
    /\ DOMAIN mtls = {"m1", "m2"}
    /\ mtls["m1"].diffuse_texture.some
    /\ current_mtl = Some("m2")
    /\ ~mtls["m2"].diffuse_texture.some
    /\ ENABLED (MtlMapKd(<<"t.png">>) /\ result' = Running)

----------------------------------------------------------------------------
\* The last entry of a table.
Last(table) == table[Len(table)]

\* The number a field of the line read by this step spells.
Field(i) == NumOf[line'.args[i]]

----------------------------------------------------------------------------
----------------------------------------------------------------------------
\* The flags of the preprocessor line read by this step.
Flags == {line'.args[i] : i \in 2..Len(line'.args)}

\* This step reads a preprocessor line "# >>> flag...".
PreprocessStep ==
    /\ ObjLine("#")
    /\ line'.args # <<>>
    /\ line'.args[1] = ">>>"

----------------------------------------------------------------------------
\* This step reads a line of the geometry file or of the library.
LineStep ==
    \/ InObj /\ line' # Eof /\ (lineno' = lineno + 1 \/ result' # Running)
    \/ InMtl /\ (mtlno' = mtlno + 1 \/ result' # Running)

\* The fields are n numbers.
Numbers(args, n) == Len(args) = n /\ \A i \in 1..n : args[i] \in DOMAIN NumOf

\* The field is a face vertex i/j/k of indices from 1.
FaceVertex(f) == Len(f) = 3 /\ \A i \in 1..3 : f[i] \in DOMAIN NumOf /\ NumOf[f[i]] >= 1

\* The line, as tokenized up to its comment, is blank, a comment, or a
\* keyword followed by exactly the fields of its directive.
Grammatical(ln) ==
    \/ ln.cmd \in {"", "#"}
    \/ ln.cmd \in {"o", "usemtl", "mtllib", "newmtl", "map_Kd"} /\ Len(ln.args) = 1
    \/ ln.cmd \in {"v", "vn"} /\ Numbers(ln.args, 3)
    \/ ln.cmd = "vt" /\ Numbers(ln.args, 2)
    \/ ln.cmd = "f" /\ Len(ln.args) >= 3 /\ \A i \in 1..Len(ln.args) : FaceVertex(ln.args[i])

\* C18: no malformed line is accepted: a line that is not its directive's
\* keyword followed by exactly the directive's fields ends the load with an
\* error, so that a load that returns Ok has read grammatical lines only.
C18_MalformedLineFails ==
    [][(LineStep /\ ~Grammatical(line')) => result'.tag = "err"]_vars

----------------------------------------------------------------------------
\* C19: a trailing comment changes nothing: a step that accepts a content
\* line is also the step of the same line with "#" and any text appended,
\* with or without a blank before the "#".
C19_TrailingCommentIgnored ==
    [][/\ \A raw \in GeomContent : \A tail \in CommentTails :
              (ReadLine(raw) /\ result' = Running) => ReadLine(raw \o tail)
       /\ \A raw \in MtlContent : \A tail \in CommentTails :
              (ReadMtlLine(raw) /\ result' = Running) => ReadMtlLine(raw \o tail)]_vars

----------------------------------------------------------------------------
\* The characters [A-Za-z0-9_.-] among those of the model.
AsciiIdChars == {"a", "7", "_"}

\* All characters of the name are in the set.
Over(name, chars) == \A i \in 1..Len(name) : name[i] \in chars

\* C20: the name of an "o" line is accepted, by the grammar and by
\* the loader, only if it is a non-empty string over [A-Za-z0-9_.-].
C20_NamesAsciiNonEmpty ==
    [][\A name \in IdInputs :
          /\ (ParseLine(OLine(name))
                 /\ result'.res = NomOk(<<>>, <<[directive |-> "O", name |-> name]>>)) =>
                name # <<>> /\ Over(name, AsciiIdChars)
          /\ (ReadLine(OLine(name)) /\ result' = Running) =>
                name # <<>> /\ Over(name, AsciiIdChars)]_vars

----------------------------------------------------------------------------
\* The keywords of the geometry loop and of the material loop.
ObjKeywords == {"mtllib", "o", "v", "vt", "vn", "usemtl", "f"}
MtlKeywords == {"newmtl", "map_Kd"}

\* The leading token of a raw line that has one.
Leading(raw) == Text(Tokens(raw)[1])

\* A geometry line that is blank or a comment; a library line likewise.
IsBlank(raw) == Tokens(raw) = <<>>
IsComment(raw) ==
    /\ ~IsBlank(raw)
    /\ Leading(raw) = "#"
    /\ Len(Tokens(raw)) >= 2 => Text(Tokens(raw)[2]) # ">>>"
IsMtlComment(raw) == ~IsBlank(raw) /\ Leading(raw) = "#"

\* The loader's tables.
Tables == <<objects, materials, cull, current_obj, mtls, current_mtl, mode>>

\* C21: a line whose leading token is neither "#" nor a keyword of its file
\* fails the load with Unexpected of that leading token; a blank line and a
\* comment line are accepted and change none of the loader's tables.
C21_UnknownKeyword ==
    [][/\ \A raw \in PlainGeomLines :
              ReadLine(raw) =>
                  /\ (IsBlank(raw) \/ IsComment(raw)) =>
                        result' = Running /\ UNCHANGED Tables
                  /\ (~IsBlank(raw) /\ Leading(raw) \notin ObjKeywords \cup {"#"}) =>
                        result' = Failed(Unexpected(Leading(raw)))
       /\ \A raw \in PlainMtlLines :
              ReadMtlLine(raw) =>
                  /\ (IsBlank(raw) \/ IsMtlComment(raw)) =>
                        result' = Running /\ UNCHANGED Tables
                  /\ (~IsBlank(raw) /\ Leading(raw) \notin MtlKeywords \cup {"#"}) =>
                        result' = Failed(Unexpected(Leading(raw)))]_vars

\* The line "g x" of a geometry file failed the load with Unexpected("g").
C21_Witness ==
    /\ result = Failed(Unexpected("g"))
    /\ line = [cmd |-> "g", args |-> <<"x">>]

----------------------------------------------------------------------------
\* The components of a face word, and what a word may lack.
Components(word) == SplitSlash(word, <<>>)
GoodTriple(word) == FaceVertex(Components(word))
LacksComponent(word) ==
    Len(Components(word)) < 3 \/ \E i \in 1..Len(Components(word)) : Components(word)[i] = ""
HasZero(word) ==
    /\ Len(Components(word)) = 3
    /\ \A i \in 1..3 : Components(word)[i] \in DOMAIN NumOf
    /\ \E i \in 1..3 : Components(word)[i] = "0"

\* An object is open whose three tables hold an entry.
Furnished ==
    /\ current_obj.some
    /\ Cur.positions # <<>> /\ Cur.uvs # <<>> /\ Cur.normals # <<>>

\* C22: an "f" line is accepted only if it has at least three triples, each
\* with its three components present and a decimal integer of at least 1;
\* with fewer than three triples it fails; when the only defect of its triples
\* is a component 0 it fails with ZeroIndex, when the only defect is a missing
\* component (1/2 or 1//3) it fails with ExpectedIndex; an accepted component
\* k is used as index k - 1.
C22_FaceTriples ==
    [][\A words \in SeqsOf(FaceWords, 2, MaxFaceLen) :
          (Furnished /\ ReadLine(FaceLine(words))) =>
              /\ result' = Running =>
                    /\ Len(words) >= 3
                    /\ \A i \in 1..Len(words) : GoodTriple(words[i])
                    /\ \A i \in 1..Len(words) :
                          Key(Components(words[i])) \in DOMAIN CurAfter.table
              /\ Len(words) < 3 => result'.tag = "err"
              /\ (/\ Len(words) >= 3
                  /\ \A i \in 1..Len(words) : GoodTriple(words[i]) \/ HasZero(words[i])
                  /\ \E i \in 1..Len(words) : HasZero(words[i])) =>
                    result' = Failed(ZeroIndex)
              /\ (/\ Len(words) >= 3
                  /\ \A i \in 1..Len(words) : GoodTriple(words[i]) \/ LacksComponent(words[i])
                  /\ \E i \in 1..Len(words) : LacksComponent(words[i])) =>
                    result' = Failed(ExpectedIndex)]_vars

----------------------------------------------------------------------------
\* C23: a "v", "vt", "vn", "usemtl" or "f" line acts on the most recently
\* started object only. An accepted "o" line makes the object it names
\* current, and the name is a new one, so an earlier object never becomes
\* current again; every other line leaves the current object the same; an
\* accepted "v"/"vt"/"vn"/"usemtl"/"f" line changes the entry of the current
\* object and no field of any other object.
C23_ActsOnCurrentOnly ==
    [][/\ (ObjLine("o") /\ result' = Running) =>
              /\ current_obj' = Some(line'.args[1])
              /\ line'.args[1] \notin DOMAIN objects
              /\ \A id \in DOMAIN objects : objects'[id] = objects[id]
       /\ \A cmd \in NeedsObject :
              (ObjLine(cmd) /\ result' = Running) =>
                  /\ current_obj.some
                  /\ current_obj' = current_obj
                  /\ DOMAIN objects' = DOMAIN objects
                  /\ CurAfter # Cur
                  /\ \A id \in DOMAIN objects \ {current_obj.val} :
                        objects'[id] = objects[id]]_vars

\* After "o A" with a position, a binding and a triangle and then "o B", a
\* face was accepted in B; A holds what it held.
C23_Witness ==
    /\ result = Running
    /\ line.cmd = "f"
    /\ current_obj = Some("B")
    /\ "A" \in DOMAIN objects
    /\ objects["A"].mtl = Some("m1")
    /\ Len(objects["A"].faces) = 1
    /\ Len(objects["B"].faces) = 1
    /\ ~objects["B"].mtl.some

----------------------------------------------------------------------------
\* The tasks that returned.
Done == {t \in DOMAIN tasks : tasks[t].pc = "done"}

\* The lines of a file that hold the flag "check_cull".
CullAt(file) == {j \in 1..Len(file) : file[j] = CullLine}

\* C24: the flag "check_cull" does not show in the output. A load of a file
\* with a line "# >>> check_cull" returns a result that the load of the file
\* without that line may return, and the two files have the same possible
\* results: the same objects with the same vertex buffers, face lists and
\* materials, or the same error.
C24_CullIsNoOp ==
    \A t \in Done :
        \A j \in CullAt(tasks[t].file) :
            /\ tasks[t].result \in load(Remove(tasks[t].file, j), tasks[t].lib)
            /\ load(Remove(tasks[t].file, j), tasks[t].lib) = load(tasks[t].file, tasks[t].lib)

\* A file with the flag was loaded and an object of the result has a triangle.
C24_Witness ==
    \E t \in Done :
        /\ CullAt(tasks[t].file) # {}
        /\ tasks[t].result.tag = "ok"
        /\ \E i \in 1..Len(tasks[t].result.objects) :
              tasks[t].result.objects[i].asset.faces # <<>>

----------------------------------------------------------------------------
\* C25: loads in flight share nothing that one of them writes. Whatever the
\* order in which the executor polls two loads of different files, the result
\* a load returns is one it may return when it runs alone, and a poll of one
\* task changes nothing of the other.
C25_LoadsIndependent ==
    [][/\ \A t \in {u \in DOMAIN tasks' : tasks'[u].pc = "done"} :
              tasks'[t].result \in load(tasks'[t].file, tasks'[t].lib)
       /\ \A t \in DOMAIN tasks :
              (PollRead(t) \/ PollFetch(t)) =>
                  \A u \in DOMAIN tasks \ {t} : tasks'[u] = tasks[u]]_vars

\* The two loads were polled in turn: the second ran up to its library between
\* the two polls of the first, and both have returned, the first with a
\* collection.
C25_Witness ==
    /\ Len(tasks) = 2
    /\ tasks[1].at = <<1, 3>>
    /\ tasks[2].at = <<2, 4>>
    /\ tasks[1].lib # tasks[2].lib
    /\ tasks[1].result.tag = "ok"
    /\ tasks[2].pc = "done"

----------------------------------------------------------------------------
\* The lines of a text that the grammar has a directive for.
ValidObjLines ==
    {<<"o", " ", "A">>,
     <<"v", " ", "1", " ", "2", " ", "3">>,
     <<"v", "t", " ", "1", " ", "2">>,
     <<"v", "n", " ", "1", " ", "2", " ", "3">>,
     <<"u", "s", "e", "m", "t", "l", " ", "m">>,
     <<"m", "t", "l", "l", "i", "b", " ", "l">>,
     <<"f", " ", "1", "/", "1", "/", "1", " ", "1", "/", "1", "/", "1", " ",
       "1", "/", "1", "/", "1">>,
     <<"#", " ", "c">>,
     <<"#", " ", ">", ">", ">", " ", "c">>}

ValidMtlLines ==
    {<<"n", "e", "w", "m", "t", "l", " ", "m">>,
     <<"m", "a", "p", "_", "K", "d", " ", "t">>,
     <<"#", " ", "c">>}

\* C26: parse_obj and parse_mtl report success only on text they parsed to
\* its end: for a text with a line that is no directive (an unknown keyword, a
\* field that is missing or malformed, a surplus word) the result is an
\* error, not Ok with the directives before that line and the rest unparsed.
C26_NoSilentTruncation ==
    [][/\ \A ls \in SeqsOf(ObjTextLines, 1, MaxTextLines) :
              ParseLine(Joined(ls)) =>
                  IF \A i \in 1..Len(ls) : ls[i] \in ValidObjLines
                  THEN result'.res.ok /\ result'.res.rest = <<>>
                       /\ Len(result'.res.out) = Len(ls)
                  ELSE ~result'.res.ok
       /\ \A ls \in SeqsOf(MtlTextLines, 1, MaxTextLines) :
              ParseMtl(Joined(ls)) =>
                  IF \A i \in 1..Len(ls) : ls[i] \in ValidMtlLines
                  THEN result'.res.ok /\ result'.res.rest = <<>>
                       /\ Len(result'.res.out) = Len(ls)
                  ELSE ~result'.res.ok]_vars

----------------------------------------------------------------------------
\* The face indices and the keys of the dedup table of an object are in range.
FacesInRange(ob) ==
    \A i \in 1..Len(ob.faces) : \A j \in 1..3 : ob.faces[i][j] < Len(ob.vertices)

KeysInRange(ob) ==
    \A key \in DOMAIN ob.table :
        /\ key[1] < Len(ob.positions)
        /\ key[2] < Len(ob.uvs)
        /\ key[3] < Len(ob.normals)

\* C27: while no line has failed, every index of an object's face list is
\* smaller than the length of the object's vertex buffer, and every key of
\* its dedup table has its three components within the lengths of the
\* object's position, uv and normal tables.
C27_IndicesInRange ==
    result = Running =>
        \A id \in DOMAIN objects : FacesInRange(objects[id]) /\ KeysInRange(objects[id])

\* An object with two triangles on two slots and two keys: the second face
\* took every slot from the dedup table.
C27_Witness ==
    /\ result = Running
    /\ \E id \in DOMAIN objects :
          /\ Len(objects[id].faces) >= 2
          /\ Len(objects[id].vertices) = 2
          /\ Cardinality(DOMAIN objects[id].table) = 2
          /\ Len(objects[id].positions) = 2

----------------------------------------------------------------------------
\* C28: the error a load returns is determined by the file and the library:
\* whenever a load ends with an error, that error is the only result the
\* load can give for these inputs, whatever the order in which the object
\* map hands out its entries.
C28_ErrorDetermined ==
    [][\A t \in DOMAIN tasks :
          /\ PollRead(t) \/ PollFetch(t)
          /\ tasks'[t].pc = "done"
          /\ tasks'[t].result.tag = "err"
          => load(tasks[t].file, tasks[t].lib) = {tasks'[t].result}]_vars

----------------------------------------------------------------------------
\* The positions of the "mtllib" line in a file, the outcome of a result (the
\* collection, or the kind of the error), and whether the library and the
\* lines of the file have a line in error.
LibAt(file) == {p \in 1..Len(file) : file[p] = MtllibLine}
Outcome(r) == IF r.tag = "err" THEN [tag |-> "err", kind |-> r.err.kind] ELSE r
Outcomes(file, lib) == {Outcome(r) : r \in load(file, lib)}
LibFails(lib) == for_mtl(MtlLocals, lib).result # Running
LineFails(file) == for_line(Locals, file, <<>>).result # Running
Ended(t) == (PollRead(t) \/ PollFetch(t)) /\ tasks'[t].pc = "done"

\* C29 as stated: with the "mtllib" line moved to any other position the load
\* gives the same collection or an error of the same kind, and a file
\* without a "mtllib" line fails with Missing("mtllib").
C29_MtllibAnywhere ==
    [][\A t \in DOMAIN tasks : Ended(t) =>
          IF LibAt(tasks[t].file) = {}
          THEN tasks'[t].result = Failed(Missing("mtllib"))
          ELSE \A p \in LibAt(tasks[t].file) :
                   \A j \in 0..(Len(tasks[t].file) - 1) :
                       Outcomes(Insert(Remove(tasks[t].file, p), j, MtllibLine), tasks[t].lib)
                           = Outcomes(tasks[t].file, tasks[t].lib)]_vars

\* C29: material names are resolved at the end of the file, so a "usemtl"
\* line may precede the "mtllib" line of its library. With the "mtllib" line
\* moved, a load that fails still fails and a load that succeeds still
\* succeeds; the possible results are the same ones unless both the library
\* and another line of the file are in error (then the error is the one of
\* whichever comes first in the file). A file without a "mtllib" line fails
\* with the error of its first line in error, and with Missing("mtllib") when
\* it has none.
C29_MtllibMoves ==
    [][\A t \in DOMAIN tasks : Ended(t) =>
          IF LibAt(tasks[t].file) = {}
          THEN tasks'[t].result =
                   IF LineFails(tasks[t].file)
                   THEN for_line(Locals, tasks[t].file, <<>>).result
                   ELSE Failed(Missing("mtllib"))
          ELSE \A p \in LibAt(tasks[t].file) :
                   \A j \in 0..(Len(tasks[t].file) - 1) :
                       \E moved \in {Insert(Remove(tasks[t].file, p), j, MtllibLine)} :
                           /\ (\A r \in load(moved, tasks[t].lib) : r.tag = "err")
                                  <=> tasks'[t].result.tag = "err"
                           /\ ~(LibFails(tasks[t].lib) /\ LineFails(Remove(tasks[t].file, p)))
                                  => load(moved, tasks[t].lib)
                                         = load(tasks[t].file, tasks[t].lib)]_vars

\* A load that has returned a collection for a file whose "usemtl" lines all
\* precede its "mtllib" line.
C29_Witness ==
    \E t \in DOMAIN tasks :
        /\ tasks[t].pc = "done"
        /\ tasks[t].result.tag = "ok"
        /\ LibAt(tasks[t].file) = {Len(tasks[t].file)}
        /\ \E i \in 1..Len(tasks[t].file) : tasks[t].file[i].cmd = "usemtl"

----------------------------------------------------------------------------
\* The event update_map_mesh reads next, and the handle the table has for a
\* map.
Reads(kind) == events # <<>> /\ Head(events).kind \in kind /\ update_map_mesh /\ ~panicked'
HandleOf(table, id) == {table[i][2] : i \in Entries(table, id)}

\* C30: the table follows the events. After a Removed or Unused event of a
\* map the table has no entry of it; after an Added or Modified event of a
\* map that Assets<Map> stores it has exactly one, with the handle it had
\* before when that handle's mesh was still stored in Assets<Mesh> and with a
\* handle never handed out before otherwise; and no key ever has two entries,
\* so insert_unique_unchecked is never given a key the table holds.
C30_CacheFollowsEvents ==
    [][/\ Reads({"Removed", "Unused"}) => Entries(map_meshes', Head(events).id) = {}
       /\ Reads({"Added", "Modified"}) /\ Head(events).id \in maps =>
              /\ Cardinality(Entries(map_meshes', Head(events).id)) = 1
              /\ HandleOf(map_meshes', Head(events).id) =
                     IF HandleOf(map_meshes, Head(events).id) \cap meshes # {}
                     THEN HandleOf(map_meshes, Head(events).id)
                     ELSE {handles + 1}
              /\ HandleOf(map_meshes', Head(events).id) \subseteq meshes'
       /\ update_map_mesh =>
              \A id \in MapIds : Cardinality(Entries(map_meshes', id)) <= 1]_vars

\* The table after a map's mesh was taken out of Assets<Mesh> and the map was
\* modified: the map has one entry, with the second handle.
C30_Witness ==
    /\ ~panicked
    /\ maps = {"M1"}
    /\ map_meshes = <<<<"M1", 2>>>>
    /\ meshes = {2}
    /\ handles = 2
    /\ events = <<>>

====
